---- MODULE Spec2Model ----
(***************************************************************************)
(* Verification model of the litigation chatbot's ingestion chunker        *)
(* (scripts/ingest: buildChunksForFile) and of the query path of the chat  *)
(* route (fuseResults, citation validation, POST).                         *)
(*                                                                         *)
(* Strings that the code inspects character by character (document ids,    *)
(* file names) are sequences of one-character strings.  A paragraph text   *)
(* is a record [body, words]: its identity and the number of whitespace-   *)
(* separated words that countWords finds in it.                            *)
(***************************************************************************)
EXTENDS Integers, Sequences, FiniteSets, TLC

VARIABLES
  header,         \* the document being ingested (element of DocHeaders)
  inputDoc,       \* the content elements of the file read so far
  run,            \* 1: first ingestion of the file, 2: re-ingestion
  contentItems,   \* buildChunksForFile: contentItems
  pageParaCount,  \* buildChunksForFile: pageParaCount
  chunks,         \* buildChunksForFile: chunks
  current,        \* buildChunksForFile: current, <<>> for null
  chunkIndex,     \* buildChunksForFile: chunkIndex
  pc,             \* "loop": in the item loop, "done": chunks returned
  prevChunks      \* the chunks returned by the first ingestion

chunkVars == <<header, inputDoc, run, contentItems, pageParaCount, chunks,
               current, chunkIndex, pc, prevChunks>>

VARIABLES
  dense,          \* fuseResults: the dense result list
  sparse,         \* fuseResults: the sparse result list
  topK,           \* fuseResults: topK
  fused,          \* the list fuseResults returned
  fpc             \* "input": before the call, "fused": after it

fuseVars == <<dense, sparse, topK, fused, fpc>>

VARIABLES
  vMatches,       \* citation validation: the retrieved matches
  vClaimed,       \* citation validation: parsed.citations of the model
  vCitations,     \* the citations the validation produced
  vpc             \* "input": before the validation, "validated": after it

citeVars == <<vMatches, vClaimed, vCitations, vpc>>

VARIABLES
  env,            \* process environment: RAG_TOP_K, structured output, ...
  request,        \* body of the chat request
  question,       \* POST: question
  history,        \* POST: history
  denseMatches,   \* POST: denseMatches
  sparseMatches,  \* POST: sparseMatches
  matches,        \* POST: matches
  calls,          \* the chat-completion calls made for the request
  raw,            \* POST: raw, <<>> before the model answered
  response,       \* the JSON response, <<>> while there is none
  events,         \* the events sent on the streaming response
  streamClosed,   \* the streaming response was closed
  hpc             \* position of the handler

chatVars == <<env, request, question, history, denseMatches, sparseMatches,
              matches, calls, raw, response, events, streamClosed, hpc>>

VARIABLES
  jsonDoc,        \* the JSON document whose text is pushed into the extractor
  upstream,       \* the part of the streamed text that has not arrived yet
  fullContent,    \* callOpenRouterStream: fullContent
  extractor,      \* the state of createAnswerStreamExtractor's closure
  pushed,         \* the strings returned by extractor.push so far, concatenated
  splitInToken,  \* a fragment ended inside an escape sequence or a start token
  stripper,       \* the state of createInlineCitationStripper's closure
  cleaned,        \* the strings returned by the stripper so far, concatenated
  spc             \* position of the scanner run

scanVars == <<jsonDoc, upstream, fullContent, extractor, pushed, splitInToken,
              stripper, cleaned, spc>>

VARIABLES
  jsonFiles,      \* run: jsonFiles, each with its parsed elements or malformed
  fileIndex,      \* run: the number of files the loop has passed
  allChunks,      \* run: allChunks
  chunkFile,      \* the lines of the chunk file (CHUNKS_OUT)
  upserted,       \* the vector ids upserted so far
  exitCode,       \* <<>> while the process runs, <<code>> after it ended
  bpc             \* position of run

batchVars == <<jsonFiles, fileIndex, allChunks, chunkFile, upserted, exitCode, bpc>>

VARIABLES
  elements,       \* buildChunksForFile: elements, the parsed element file
  elementsById,   \* buildChunksForFile: elementsById
  elemIndex,      \* number of elements the first loop has dealt with
  cursor,         \* getSectionPath: cursor
  pathParts,      \* getSectionPath: pathParts
  visited,        \* the ids of the elements the walk has been at, in order
  itemIndex,      \* number of content items the second loop has dealt with
  epc             \* position in buildChunksForFile

elemVars == <<elements, elementsById, elemIndex, cursor, pathParts, visited,
              itemIndex, epc>>

VARIABLES
  wire,           \* the parts of the event stream that reader.read() has yet to deliver
  netBuffer,      \* callOpenRouterStream: buffer
  extractorIn,    \* the strings passed to extractor.push, in order
  stripperIn,     \* the strings passed to stripStreamCites, in order
  returned        \* the value callOpenRouterStream returned, if it has

sseVars == <<wire, netBuffer, extractorIn, stripperIn, returned>>

VARIABLES
  messages,       \* Home: messages
  isLoading,      \* Home: isLoading
  clientError,    \* Home: error, <<>> for null
  assistantIndex, \* handleSend: assistantIndex
  inbound,        \* the parts of the response body the reader has yet to deliver
  clientBuffer,   \* handleSend: buffer
  streamDone,     \* handleSend: streamDone
  atDone,         \* the answer and citations of the first done event handled
  cpc             \* position in handleSend

clientVars == <<messages, isLoading, clientError, assistantIndex, inbound,
                clientBuffer, streamDone, atDone, cpc>>

VARIABLES
  cachedSystemPrompt, \* route.ts: cachedSystemPrompt, <<>> for null
  loaders,            \* the calls of loadSystemPrompt: position and return value
  cacheWrites,        \* the values assigned to cachedSystemPrompt, in order
  promptsReturned     \* the texts that calls of loadSystemPrompt have returned

promptVars == <<cachedSystemPrompt, loaders, cacheWrites, promptsReturned>>

VARIABLES
  localIndex,     \* the chunk endpoint's chunkIndex, <<>> for null
  chunksFile,     \* data/chunks.jsonl as it is during the request
  lookupId,       \* the id parameter of the request, <<>> when there is none
  metadata,       \* GET: metadata, <<>> for null
  vectorFetches,  \* number of fetches of the vector store in this request
  indexLookups,   \* number of calls of getChunkFromLocal in this request
  fileReads,      \* number of reads of data/chunks.jsonl in this request
  loadFailures,   \* number of reads of data/chunks.jsonl that failed so far
  lookupResponse, \* the response of the request, <<>> while there is none
  lookupsDone,    \* number of requests answered
  lpc             \* position in GET

lookupVars == <<localIndex, chunksFile, lookupId, metadata, vectorFetches,
                indexLookups, fileReads, loadFailures, lookupResponse,
                lookupsDone, lpc>>

vars == <<chunkVars, fuseVars, citeVars, chatVars, scanVars, batchVars, elemVars,
         sseVars,
         clientVars,
         promptVars,
         lookupVars>>

(***************************************************************************)
(* Bounds of the model                                                     *)
(***************************************************************************)
\* concurrent requests that call loadSystemPrompt
MaxLoaders == 3
\* requests to the chunk endpoint
MaxLookups == 3
\* most lines of one event stream
MaxLines == 4
\* most parts of the stream that one read delivers
MaxReadParts == 3

\* longest content-item sequence of one document
MaxItems == 7
\* longest document that is ingested a second time
MaxRerunItems == 5
\* longest citation list in a model output handed to the validation
MaxClaimed == 4
\* longest citation list in a model output of the chat handler
MaxModelCitations == 2
\* longest ranked list a similarity search returns
MaxListLen == 3
\* largest top-K of the fusion
MaxTopK == 4
\* the most element files of an ingestion batch
MaxFiles == 3
\* the most pieces (letters, markers) of an answer passed to the stripper
MaxPieces == 3
\* the longest fragment that is not the whole rest of a text
MaxFragmentLen == 3
\* the longest answer string of a pushed JSON text, in characters
MaxAnswerUnits == 3
\* the most elements of a parsed file
MaxElements == 3

(***************************************************************************)
(* Policy constants of the chunker                                         *)
(***************************************************************************)
MIN_PARAS == 4
MAX_PARAS == 6
MIN_WORDS == 350
MAX_WORDS == 800

PDF_BASE_URL == <<"/", "p", "d", "f", "s">>

(***************************************************************************)
(* Character-level helpers                                                 *)
(***************************************************************************)
UpperChars == <<"A","B","C","D","E","F","G","H","I","J","K","L","M",
                "N","O","P","Q","R","S","T","U","V","W","X","Y","Z">>
LowerChars == <<"a","b","c","d","e","f","g","h","i","j","k","l","m",
                "n","o","p","q","r","s","t","u","v","w","x","y","z">>
DigitChars == {"0","1","2","3","4","5","6","7","8","9"}

Range(s) == { s[i] : i \in DOMAIN s }

\* String.prototype.toLowerCase on one character
ToLowerChar(c) ==
  IF \E i \in DOMAIN UpperChars : UpperChars[i] = c
  THEN LowerChars[CHOOSE i \in DOMAIN UpperChars : UpperChars[i] = c]
  ELSE c

ToLower(s) == [i \in DOMAIN s |-> ToLowerChar(s[i])]

IsSlugChar(c) == c \in Range(LowerChars) \cup DigitChars

Slice(s, from, to) ==
  \* s.slice(from, to) with 0-based from (inclusive) and to (exclusive)
  IF to <= from THEN <<>>
  ELSE [i \in 1..((IF to > Len(s) THEN Len(s) ELSE to) - from) |-> s[from + i]]

RECURSIVE DashRuns(_)
\* .replace(/[^a-z0-9]+/g, "-"): every maximal run of other characters
\* becomes one dash
DashRuns(s) ==
  IF s = <<>> THEN <<>>
  ELSE IF IsSlugChar(Head(s)) THEN <<Head(s)>> \o DashRuns(Tail(s))
  ELSE IF Len(s) > 1 /\ ~IsSlugChar(s[2]) THEN DashRuns(Tail(s))
  ELSE <<"-">> \o DashRuns(Tail(s))

RECURSIVE TrimDashes(_)
\* .replace(/^-+|-+$/g, "")
TrimDashes(s) ==
  IF s = <<>> THEN <<>>
  ELSE IF Head(s) = "-" THEN TrimDashes(Tail(s))
  ELSE IF s[Len(s)] = "-" THEN TrimDashes(SubSeq(s, 1, Len(s) - 1))
  ELSE s

slugify(value) == Slice(TrimDashes(DashRuns(ToLower(value))), 0, 60)

EndsWithNoCase(s, suffix) ==
  /\ Len(s) >= Len(suffix)
  /\ ToLower(SubSeq(s, Len(s) - Len(suffix) + 1, Len(s))) = suffix

\* value.replace(/<suffix>$/i, replacement)
ReplaceSuffixNoCase(s, suffix, replacement) ==
  IF EndsWithNoCase(s, suffix)
  THEN SubSeq(s, 1, Len(s) - Len(suffix)) \o replacement
  ELSE s

RECURSIVE Basename(_)
\* path.basename: what follows the last separator
Basename(p) ==
  IF \E i \in DOMAIN p : p[i] = "/"
  THEN Basename(Tail(p))
  ELSE p

UnreservedMarks == {"-", "_", ".", "!", "~", "*", "'", "(", ")"}

\* encodeURIComponent on one character: letters, digits and the unreserved
\* marks stay, everything else is percent-encoded
EncodeChar(c) ==
  IF \/ c \in Range(LowerChars) \cup Range(UpperChars) \cup DigitChars
     \/ c \in UnreservedMarks
  THEN <<c>>
  ELSE IF c = " " THEN <<"%", "2", "0">>
  ELSE IF c = "/" THEN <<"%", "2", "F">>
  ELSE IF c = "|" THEN <<"%", "7", "C">>
  ELSE <<"%", c>>

RECURSIVE encodeURIComponent(_)
encodeURIComponent(s) ==
  IF s = <<>> THEN <<>> ELSE EncodeChar(Head(s)) \o encodeURIComponent(Tail(s))

RECURSIVE JoinWith(_, _)
\* Array.prototype.join: the parts with the separator between neighbours
JoinWith(parts, sep) ==
  IF parts = <<>> THEN <<>>
  ELSE IF Len(parts) = 1 THEN <<parts[1]>>
  ELSE <<parts[1], sep>> \o JoinWith(Tail(parts), sep)

(***************************************************************************)
(* Chunk ids                                                               *)
(***************************************************************************)
\* sha256(...).digest("hex").slice(0, 16), kept as the hashed message: the
\* digest is a function of the message and of nothing else
Sha256Hex16(message) == <<"sha256/16", message>>

\* Mutant: the id is salted with something that differs between two runs.
makeChunkId_Salted(docId, index, elementIds) ==
  <<slugify(docId), "-", index, "-",
    Sha256Hex16(<<docId, "|", index, "|", JoinWith(elementIds, "|"), run>>)>>

makeChunkId(docId, index, elementIds) ==
  <<slugify(docId), "-", index, "-",
    Sha256Hex16(<<docId, "|", index, "|", JoinWith(elementIds, "|")>>)>>

\* text.trim().split(/\s+/).length, 0 for the empty text
countWords(text) == IF text.body = <<>> THEN 0 ELSE text.words

(***************************************************************************)
(* Inputs of the chunk builder                                             *)
(***************************************************************************)
SmallText == [body |-> <<"s","h","o","r","t">>, words |-> 3]
BigText   == [body |-> <<"l","o","n","g">>, words |-> 450]

\* The content elements a parsed document is made of: page, resolved
\* section path, normalized text and element type.
ItemShapes ==
  { [page_number |-> 1, section_path |-> "Rule 6", text |-> SmallText,
     type |-> "NarrativeText"],
    [page_number |-> 1, section_path |-> "Rule 6", text |-> BigText,
     type |-> "Table"],
    [page_number |-> 1, section_path |-> "Rule 6 > Notice", text |-> SmallText,
     type |-> "NarrativeText"],
    [page_number |-> 3, section_path |-> "Rule 6", text |-> SmallText,
     type |-> "NarrativeText"] }

Pages == { s.page_number : s \in ItemShapes }

\* The element file, the filename its elements carry in their metadata
\* (<<>>: none) and the normalized text of its first Title element (<<>>:
\* none).
DocHeaders ==
  { [filePath |-> <<"i","n","/","r"," ","6",".","J","S","O","N">>,
     filename |-> <<>>, docTitle |-> <<>>],
    [filePath |-> <<"i","n","/","a",".","j","s","o","n">>,
     filename |-> <<"R","u","l","e","-","6",".","P","D","F">>,
     docTitle |-> <<"R","u","l","e","s">>] }


(***************************************************************************)
(* buildChunksForFile                                                      *)
(***************************************************************************)
\* One entry of contentItems, for the element at position pos of the file.
ContentItem(shape, pos, paraCount, hdr) ==
  [element_id   |-> pos,
   type         |-> shape.type,
   text         |-> shape.text,
   page_number  |-> shape.page_number,
   para_index   |-> paraCount[shape.page_number] + 1,
   section_path |-> shape.section_path,
   content_type |-> IF shape.type = "Table" THEN "table" ELSE "text",
   doc_id       |-> hdr.filename]

fallbackDocId(hdr) ==
  ReplaceSuffixNoCase(Basename(hdr.filePath), <<".","j","s","o","n">>,
                      <<".","p","d","f">>)

resolvedDocId(item, hdr) ==
  IF item.doc_id # <<>> THEN item.doc_id ELSE fallbackDocId(hdr)

\* The accumulator opened for an item.
NewAccumulator(item, hdr) ==
  [doc_id        |-> resolvedDocId(item, hdr),
   doc_title     |-> IF hdr.docTitle # <<>> THEN hdr.docTitle
                     ELSE ReplaceSuffixNoCase(resolvedDocId(item, hdr),
                                              <<".","p","d","f">>, <<>>),
   section_path  |-> item.section_path,
   page_start    |-> item.page_number,
   page_end      |-> item.page_number,
   para_start    |-> item.para_index,
   para_end      |-> item.para_index,
   element_ids   |-> <<item.element_id>>,
   text_parts    |-> <<item.text>>,
   word_count    |-> countWords(item.text),
   para_count    |-> 1,
   content_types |-> {item.content_type}]

\* Mutant: a section change no longer closes the chunk.
sectionChanged_Never(cur, item) == FALSE

sectionChanged(cur, item) == item.section_path # cur.section_path

\* Mutant: a page change no longer closes the chunk.
pageChanged_Never(cur, item) == FALSE

pageChanged(cur, item) == item.page_number # cur.page_end

\* Mutant: the words of the item are not counted.
nextWordCount_Stale(cur, item) == cur.word_count

nextWordCount(cur, item) == cur.word_count + countWords(item.text)

\* Mutant: off by one, the chunk is closed one paragraph late.
tooManyParas_OffByOne(cur) == cur.para_count > MAX_PARAS

tooManyParas(cur) == cur.para_count >= MAX_PARAS

\* Mutant: the minimum-paragraph guard is missing.
wordsOverflow_NoGuard(cur, item) == nextWordCount(cur, item) > MAX_WORDS

wordsOverflow(cur, item) ==
  nextWordCount(cur, item) > MAX_WORDS /\ cur.para_count >= MIN_PARAS

ShouldFlush(cur, item) ==
  \/ sectionChanged(cur, item)
  \/ pageChanged(cur, item)
  \/ tooManyParas(cur)
  \/ wordsOverflow(cur, item)

MergeItem(cur, item) ==
  [cur EXCEPT !.page_end = item.page_number,
              !.para_end = item.para_index,
              !.element_ids = Append(@, item.element_id),
              !.text_parts = Append(@, item.text),
              !.word_count = nextWordCount(cur, item),
              !.para_count = @ + 1,
              !.content_types = @ \cup {item.content_type}]

\* The chunk that flushChunk pushes for the accumulator cur.
FlushedChunk(cur, index) ==
  [chunk_id     |-> makeChunkId(cur.doc_id, index, cur.element_ids),
   doc_id       |-> cur.doc_id,
   doc_title    |-> cur.doc_title,
   page_start   |-> cur.page_start,
   page_end     |-> cur.page_end,
   para_start   |-> cur.para_start,
   para_end     |-> cur.para_end,
   section_path |-> cur.section_path,
   content_type |-> IF Cardinality(cur.content_types) = 1
                    THEN CHOOSE t \in cur.content_types : TRUE
                    ELSE "mixed",
   element_ids  |-> cur.element_ids,
   text         |-> JoinWith(cur.text_parts, "\n\n"),
   source_url   |-> <<PDF_BASE_URL, "/", encodeURIComponent(cur.doc_id),
                      "#page=", cur.page_start>>,
   chunk_index  |-> index]

\* flushChunk: nothing without an open accumulator
ChunksAfterFlush == IF current = <<>> THEN chunks
                    ELSE Append(chunks, FlushedChunk(current[1], chunkIndex))

\* Mutant: the counter is not incremented.
IndexAfterFlush_Stuck == chunkIndex

IndexAfterFlush == IF current = <<>> THEN chunkIndex ELSE chunkIndex + 1

\* The state in which buildChunksForFile enters its item loop.
StartOfRun ==
  /\ contentItems = <<>>
  /\ pageParaCount = [p \in Pages |-> 0]
  /\ chunks = <<>>
  /\ current = <<>>
  /\ chunkIndex = 0
  /\ pc = "loop"

\* One iteration of the loop over the content items: the item opens a
\* chunk, or closes the open one and opens the next, or is merged.
Accumulate(item) ==
  IF current = <<>>
  THEN /\ current' = <<NewAccumulator(item, header)>>
       /\ UNCHANGED <<chunks, chunkIndex>>
  ELSE IF ShouldFlush(current[1], item)
  THEN /\ chunks' = ChunksAfterFlush
       /\ chunkIndex' = IndexAfterFlush
       /\ current' = <<NewAccumulator(item, header)>>
  ELSE /\ current' = <<MergeItem(current[1], item)>>
       /\ UNCHANGED <<chunks, chunkIndex>>

\* One iteration for the content element `shape`: the element becomes a
\* content item and the item loop opens, flushes or extends the accumulator.
ProcessItem(shape) ==
  LET item == ContentItem(shape, Len(contentItems) + 1, pageParaCount, header)
  IN /\ contentItems' = Append(contentItems, item)
     /\ pageParaCount' = [pageParaCount EXCEPT ![shape.page_number] = @ + 1]
     /\ Accumulate(item)

\* First ingestion: the next content element of the file is read.
ReadItem ==
  /\ pc = "loop"
  /\ run = 1
  /\ Len(inputDoc) < MaxItems
  /\ \E shape \in ItemShapes :
       /\ inputDoc' = Append(inputDoc, shape)
       /\ ProcessItem(shape)
  /\ UNCHANGED <<header, run, pc, prevChunks, fuseVars, citeVars, chatVars, scanVars, batchVars,
                 elemVars, sseVars, clientVars, promptVars, lookupVars>>

\* Re-ingestion: the item that the first ingestion found at this position.
ReplayItem ==
  /\ pc = "loop"
  /\ run = 2
  /\ Len(contentItems) < Len(inputDoc)
  /\ ProcessItem(inputDoc[Len(contentItems) + 1])
  /\ UNCHANGED <<header, inputDoc, run, pc, prevChunks, fuseVars, citeVars, chatVars, scanVars, batchVars,
                 elemVars, sseVars, clientVars, promptVars, lookupVars>>

\* Mutant: the chunks are returned without the final flush.
FinishFile_NoFlush ==
  /\ pc = "loop"
  /\ Len(contentItems) = Len(inputDoc)
  /\ current' = <<>>
  /\ pc' = "done"
  /\ UNCHANGED <<header, inputDoc, run, contentItems, pageParaCount, chunks,
                 chunkIndex, prevChunks, fuseVars, citeVars, chatVars, scanVars, batchVars,
                 elemVars, sseVars, clientVars, promptVars, lookupVars>>

\* The file has no further element: the last accumulator is flushed and the
\* chunks are returned.
FinishFile ==
  /\ pc = "loop"
  /\ Len(contentItems) = Len(inputDoc)
  /\ chunks' = ChunksAfterFlush
  /\ chunkIndex' = IndexAfterFlush
  /\ current' = <<>>
  /\ pc' = "done"
  /\ UNCHANGED <<header, inputDoc, run, contentItems, pageParaCount, prevChunks,
                 fuseVars, citeVars, chatVars, scanVars, batchVars,
                 elemVars, sseVars, clientVars, promptVars, lookupVars>>

\* embedBatch: the embedding service is a function of the text it is given
Embedding(text) == [input |-> text]

\* Mutant: the id of the upserted vector depends on the run.
VectorOf_RunStamped(chunk) ==
  [id       |-> <<chunk.chunk_id, run>>,
   values   |-> Embedding(chunk.text),
   metadata |-> [doc_id |-> chunk.doc_id, text |-> chunk.text]]

\* The vector upserted for a chunk.
VectorOf(chunk) ==
  [id       |-> chunk.chunk_id,
   values   |-> Embedding(chunk.text),
   metadata |-> [doc_id       |-> chunk.doc_id,
                 doc_title    |-> chunk.doc_title,
                 page_start   |-> chunk.page_start,
                 page_end     |-> chunk.page_end,
                 para_start   |-> chunk.para_start,
                 para_end     |-> chunk.para_end,
                 section_path |-> chunk.section_path,
                 content_type |-> chunk.content_type,
                 element_ids  |-> chunk.element_ids,
                 source_url   |-> chunk.source_url,
                 text         |-> chunk.text]]

\* The chunks of the file are embedded and upserted, batch after batch in
\* the order of the chunks.
UpsertChunks ==
  /\ pc = "done"
  /\ upserted' = upserted \o [k \in DOMAIN chunks |-> VectorOf(chunks[k])]
  /\ pc' = "upserted"
  /\ UNCHANGED <<header, inputDoc, run, contentItems, pageParaCount, chunks, current,
                 chunkIndex, prevChunks, jsonFiles, fileIndex, allChunks, chunkFile,
                 exitCode, bpc, fuseVars, citeVars, chatVars, scanVars,
                 elemVars, sseVars, clientVars, promptVars, lookupVars>>

\* The unchanged file is ingested again: buildChunksForFile starts afresh.
Rerun ==
  /\ pc = "upserted"
  /\ run = 1
  /\ Len(inputDoc) <= MaxRerunItems
  /\ prevChunks' = chunks
  /\ run' = 2
  /\ contentItems' = <<>>
  /\ pageParaCount' = [p \in Pages |-> 0]
  /\ chunks' = <<>>
  /\ current' = <<>>
  /\ chunkIndex' = 0
  /\ pc' = "loop"
  /\ UNCHANGED <<header, inputDoc, fuseVars, citeVars, chatVars, scanVars, batchVars,
                 elemVars, sseVars, clientVars, promptVars, lookupVars>>

\* createAnswerStreamExtractor: the variables of the closure as they are
\* initialised; unicodeBuffer is <<>> for null and <<digits>> otherwise.
NewExtractor ==
  [inString |-> FALSE,
   stringEscape |-> FALSE,
   currentString |-> <<>>,
   parsingKey |-> FALSE,
   lastString |-> <<>>,
   expectingAnswerValue |-> FALSE,
   inAnswerValue |-> FALSE,
   answerEscape |-> FALSE,
   unicodeBuffer |-> <<>>]

\* createInlineCitationStripper: the variables of the closure as they are
\* initialised.
NewStripper == [inCite |-> FALSE, carry |-> <<>>]

\* No text is being scanned.
IdleScan ==
  /\ jsonDoc = <<>>
  /\ upstream = <<>>
  /\ fullContent = <<>>
  /\ extractor = NewExtractor
  /\ pushed = <<>>
  /\ splitInToken = FALSE
  /\ stripper = NewStripper
  /\ cleaned = <<>>
  /\ spc = "idle"

\* No event stream is being read.
IdleSse ==
  /\ wire = <<>>
  /\ netBuffer = <<>>
  /\ extractorIn = <<>>
  /\ stripperIn = <<>>
  /\ returned = <<>>

\* No page is open.
IdleClient ==
  /\ messages = <<>>
  /\ isLoading = FALSE
  /\ clientError = <<>>
  /\ assistantIndex = 0
  /\ inbound = <<>>
  /\ clientBuffer = <<>>
  /\ streamDone = FALSE
  /\ atDone = <<>>
  /\ cpc = "closed"

\* No call of loadSystemPrompt has been made.
IdlePrompt ==
  /\ cachedSystemPrompt = <<>>
  /\ loaders = <<>>
  /\ cacheWrites = <<>>
  /\ promptsReturned = {}

\* No chunk is being looked up.
IdleLookup ==
  /\ localIndex = <<>>
  /\ chunksFile = <<>>
  /\ lookupId = <<>>
  /\ metadata = <<>>
  /\ vectorFetches = 0
  /\ indexLookups = 0
  /\ fileReads = 0
  /\ loadFailures = 0
  /\ lookupResponse = <<>>
  /\ lookupsDone = 0
  /\ lpc = "closed"

\* No element file is being read.
IdleElem ==
  /\ elements = <<>>
  /\ elementsById = <<>>
  /\ elemIndex = 0
  /\ cursor = <<>>
  /\ pathParts = <<>>
  /\ visited = <<>>
  /\ itemIndex = 0
  /\ epc = "idle"

\* No ingestion batch is running.
IdleBatch ==
  /\ jsonFiles = <<>>
  /\ fileIndex = 0
  /\ allChunks = <<>>
  /\ chunkFile = <<>>
  /\ upserted = <<>>
  /\ exitCode = <<>>
  /\ bpc = "idle"

\* No fusion is in progress.
IdleFuse ==
  /\ dense = <<>>
  /\ sparse = <<>>
  /\ topK = 0
  /\ fused = <<>>
  /\ fpc = "idle"

\* No citation validation is in progress.
IdleCite ==
  /\ vMatches = <<>>
  /\ vClaimed = [isArray |-> FALSE, items |-> <<>>]
  /\ vCitations = <<>>
  /\ vpc = "idle"

\* No chat request is being handled.
IdleChat ==
  /\ env = [topK |-> 8, structuredPreferred |-> TRUE, maxHistoryMessages |-> 12]
  /\ request = [messages |-> <<>>, retrievalMode |-> "hybrid", stream |-> FALSE]
  /\ question = <<>>
  /\ history = <<>>
  /\ denseMatches = <<>>
  /\ sparseMatches = <<>>
  /\ matches = <<>>
  /\ calls = <<>>
  /\ raw = <<>>
  /\ response = <<>>
  /\ events = <<>>
  /\ streamClosed = FALSE
  /\ hpc = "idle"

\* No document is being ingested.
IdleChunk ==
  /\ header = CHOOSE h \in DocHeaders : TRUE
  /\ inputDoc = <<>>
  /\ run = 1
  /\ prevChunks = <<>>
  /\ contentItems = <<>>
  /\ pageParaCount = [p \in Pages |-> 0]
  /\ chunks = <<>>
  /\ current = <<>>
  /\ chunkIndex = 0
  /\ pc = "idle"

InitChunk ==
  /\ IdleLookup
  /\ IdlePrompt
  /\ IdleClient
  /\ IdleSse
  /\ IdleElem
  /\ IdleScan
  /\ IdleBatch
  /\ IdleFuse
  /\ IdleCite
  /\ IdleChat
  /\ header \in DocHeaders
  /\ inputDoc = <<>>
  /\ run = 1
  /\ prevChunks = <<>>
  /\ StartOfRun

Init == InitChunk

Next == ReadItem \/ FinishFile

Spec == Init /\ [][Next]_vars

\* The chunk builder run twice over the same file.
NextRerun == ReadItem \/ FinishFile \/ UpsertChunks \/ Rerun \/ ReplayItem

SpecRerun == InitChunk /\ [][NextRerun]_vars

(***************************************************************************)
(* Claims about the chunk builder                                          *)
(***************************************************************************)
ElementIdsOf(items) == [i \in DOMAIN items |-> items[i].element_id]

RECURSIVE ConcatElementIds(_)
ConcatElementIds(cs) ==
  IF cs = <<>> THEN <<>>
  ELSE Head(cs).element_ids \o ConcatElementIds(Tail(cs))

IsSliceOf(part, whole) ==
  \E start \in 1..Len(whole) :
    /\ start + Len(part) - 1 <= Len(whole)
    /\ part = SubSeq(whole, start, start + Len(part) - 1)

\* The emitted chunks followed by the open accumulator, as groups of
\* element ids with the provenance recorded on them.
Groups == chunks \o current

ItemOf(id) == contentItems[CHOOSE i \in DOMAIN contentItems :
                                   contentItems[i].element_id = id]

\* C1: every chunk's element_ids is a non-empty contiguous slice of the
\* document's content-item sequence, the chunks in emission order (followed
\* by the open accumulator) concatenate to exactly that sequence, and when
\* the builder returns no accumulator is left open.
C1_ChunksPartitionItems ==
  /\ \A i \in DOMAIN chunks :
       /\ chunks[i].element_ids # <<>>
       /\ IsSliceOf(chunks[i].element_ids, ElementIdsOf(contentItems))
  /\ ConcatElementIds(Groups) = ElementIdsOf(contentItems)
  /\ pc = "done" =>
       /\ current = <<>>
       /\ ConcatElementIds(chunks) = ElementIdsOf(contentItems)
       /\ Len(contentItems) = Len(inputDoc)

C1_Witness ==
  /\ pc = "done"
  /\ Len(chunks) >= 3
  /\ Len(chunks[Len(chunks)].element_ids) >= 2
  /\ Len(contentItems) = MaxItems

\* C2: all items merged into one chunk have the section_path recorded on
\* the chunk, and no two of them lie on non-adjacent pages.
C2_NoBoundaryCrossing ==
  \A g \in DOMAIN Groups :
    \A a, b \in Range(Groups[g].element_ids) :
      /\ ItemOf(a).section_path = Groups[g].section_path
      /\ ItemOf(a).page_number - ItemOf(b).page_number \in {-1, 0, 1}

\* a section change and a jump over a page both closed a multi-item chunk
C2_Witness ==
  /\ pc = "done"
  /\ \E i, j \in DOMAIN chunks :
       /\ i + 1 < j
       /\ Len(chunks[i].element_ids) >= 2
       /\ chunks[i + 1].section_path # chunks[i].section_path
       /\ chunks[i + 1].page_start = chunks[i].page_end
       /\ Len(chunks[j - 1].element_ids) >= 2
       /\ chunks[j].section_path = chunks[j - 1].section_path
       /\ chunks[j].page_start - chunks[j - 1].page_end \notin {-1, 0, 1}

\* C3: every chunk, the final one included, has at most MAX_PARAS
\* paragraphs, and the accumulator's para_count never exceeds MAX_PARAS.
C3_AtMostMaxParas ==
  /\ \A i \in DOMAIN chunks : Len(chunks[i].element_ids) <= MAX_PARAS
  /\ current # <<>> =>
       /\ current[1].para_count <= MAX_PARAS
       /\ current[1].para_count = Len(current[1].element_ids)

\* a full chunk was closed by the paragraph limit alone
C3_Witness ==
  \E g \in DOMAIN Groups :
    /\ g > 1
    /\ Len(chunks[g - 1].element_ids) = MAX_PARAS
    /\ Groups[g].section_path = chunks[g - 1].section_path
    /\ Groups[g].page_start = chunks[g - 1].page_end
    /\ \A id \in Range(chunks[g - 1].element_ids) : ItemOf(id).text = SmallText

\* C4: whenever a chunk boundary lies between two consecutive content items
\* of the same page and the same section_path, the chunk that was closed has
\* at least MIN_PARAS paragraphs (so a word-overflow flush needs
\* para_count >= MIN_PARAS).
C4_OverflowNeedsMinParas ==
  \A g \in DOMAIN Groups :
    g > 1 =>
      LET closed == chunks[g - 1]
          last   == ItemOf(closed.element_ids[Len(closed.element_ids)])
          first  == ItemOf(Groups[g].element_ids[1])
      IN (last.page_number = first.page_number
            /\ last.section_path = first.section_path)
         => Len(closed.element_ids) >= MIN_PARAS

RECURSIVE SumWords(_)
SumWords(ids) ==
  IF ids = <<>> THEN 0 ELSE countWords(ItemOf(Head(ids)).text) + SumWords(Tail(ids))

\* a chunk of fewer than MAX_PARAS paragraphs was closed by word overflow,
\* and a chunk of fewer than MIN_PARAS paragraphs went past MAX_WORDS
\* without being closed
C4_Witness ==
  /\ \E g \in DOMAIN Groups :
       /\ g > 1
       /\ Len(chunks[g - 1].element_ids) \in MIN_PARAS..(MAX_PARAS - 1)
       /\ Groups[g].section_path = chunks[g - 1].section_path
       /\ Groups[g].page_start = chunks[g - 1].page_end
  /\ \E i \in DOMAIN chunks :
       /\ Len(chunks[i].element_ids) < MIN_PARAS
       /\ SumWords(chunks[i].element_ids) > MAX_WORDS

C23_LongChunksWithinMaxWords ==
  \A g \in DOMAIN Groups :
    /\ Len(Groups[g].element_ids) > MIN_PARAS =>
         SumWords(Groups[g].element_ids) <= MAX_WORDS
    /\ SumWords(Groups[g].element_ids) > MAX_WORDS =>
         Len(Groups[g].element_ids) <= MIN_PARAS
    /\ \A id \in Range(Groups[g].element_ids) : countWords(ItemOf(id).text) >= 1

\* a chunk of more than MIN_PARAS paragraphs was closed because the next
\* paragraph would have taken it past MAX_WORDS, and a chunk of fewer
\* paragraphs is past MAX_WORDS
C23_Witness ==
  /\ \E g \in DOMAIN Groups :
       /\ g > 1
       /\ Len(chunks[g - 1].element_ids) > MIN_PARAS
       /\ Len(chunks[g - 1].element_ids) < MAX_PARAS
       /\ Groups[g].section_path = chunks[g - 1].section_path
       /\ Groups[g].page_start = chunks[g - 1].page_end
       /\ SumWords(chunks[g - 1].element_ids) > MIN_WORDS
  /\ \E i \in DOMAIN chunks : SumWords(chunks[i].element_ids) > MAX_WORDS

\* C24: every chunk lies on one page: page_start = page_end is the page of
\* each of its items, para_start and para_end are the para_index of its
\* first and last item, and the chunk has para_end - para_start + 1
\* elements.
C24_SinglePageParaRange ==
  \A i \in DOMAIN chunks :
    LET ids == chunks[i].element_ids
    IN /\ chunks[i].page_start = chunks[i].page_end
       /\ \A id \in Range(ids) : ItemOf(id).page_number = chunks[i].page_start
       /\ chunks[i].para_start = ItemOf(ids[1]).para_index
       /\ chunks[i].para_end = ItemOf(ids[Len(ids)]).para_index
       /\ chunks[i].para_end - chunks[i].para_start + 1 = Len(ids)

\* the document left page 1 and came back to it: a chunk of several
\* paragraphs on page 1 does not start at the first paragraph of the page
C24_Witness ==
  /\ pc = "done"
  /\ \E i, j \in DOMAIN chunks :
       /\ i < j
       /\ chunks[i].page_start # chunks[j].page_start
       /\ Len(chunks[j].element_ids) >= 2
       /\ chunks[j].para_start >= 2
       /\ \E k \in DOMAIN chunks : k < i /\ chunks[k].page_start = chunks[j].page_start

\* C25: the k-th chunk of the document, counted from 0, has chunk_index k,
\* the counter is the number of chunks emitted so far, and no two chunks
\* have the same chunk_id; the chunk_id of the k-th chunk returned is the
\* one computed with ordinal k.
C25_OrdinalsConsecutive ==
  /\ chunkIndex = Len(chunks)
  /\ \A k \in DOMAIN chunks : chunks[k].chunk_index = k - 1
  /\ \A i, j \in DOMAIN chunks :
       i # j => chunks[i].chunk_id # chunks[j].chunk_id
  /\ pc = "done" =>
       \A k \in DOMAIN chunks :
         chunks[k].chunk_id =
           makeChunkId(chunks[k].doc_id, k - 1, chunks[k].element_ids)

\* the builder returned at least three chunks
C25_Witness ==
  /\ pc = "done"
  /\ Len(chunks) >= 3
  /\ chunks[3].chunk_index = 2

\* The vector store after the upserts of `log`, as a map from id to record:
\* an upsert replaces the record stored under its id.
StoreOf(log) ==
  [id \in { log[i].id : i \in DOMAIN log } |->
     log[CHOOSE i \in DOMAIN log :
           log[i].id = id /\ \A j \in DOMAIN log : log[j].id = id => j <= i]]

ChunkIds == {"a", "b", "c", "d"}

\* What the dense index returns for a chunk: id, score and metadata.
DenseHit(id) ==
  [id |-> id,
   score |-> <<CASE id = "a" -> 92 [] id = "b" -> 81 [] id = "c" -> 75
                 [] OTHER -> 60>>,
   metadata |-> IF id = "c" THEN <<>>
                ELSE [doc_id |-> "rule6.pdf", page_start |-> 4,
                      text |-> "dense text"]]

\* What the sparse index returns for a chunk: the score is hit._score ??
\* hit.score (<<>> when the hit has neither), the metadata the hit's fields.
SparseHit(id) ==
  [id |-> id,
   score |-> IF id = "d" THEN <<>>
             ELSE <<CASE id = "a" -> 3 [] id = "b" -> 7 [] OTHER -> 5>>,
   metadata |-> IF id = "b" THEN <<>>
                ELSE [doc_id |-> "rule6.pdf", para_start |-> 2,
                      text |-> "sparse text"]]

\* The ranked lists of at most n hits, no id twice in one list.
RankedIdLists(n) ==
  { l \in UNION { [1..m -> ChunkIds] : m \in 0..n } :
      \A i, j \in DOMAIN l : i # j => l[i] # l[j] }

DenseLists == { [i \in DOMAIN l |-> DenseHit(l[i])] : l \in RankedIdLists(MaxListLen) }
SparseLists == { [i \in DOMAIN l |-> SparseHit(l[i])] : l \in RankedIdLists(MaxListLen) }

\* A JavaScript Map: the entries in insertion order.
MapHas(map, key) == \E i \in DOMAIN map : map[i].key = key
MapGet(map, key) == map[CHOOSE i \in DOMAIN map : map[i].key = key].value
MapSet(map, key, value) ==
  IF MapHas(map, key)
  THEN [i \in DOMAIN map |-> IF map[i].key = key
                             THEN [key |-> key, value |-> value] ELSE map[i]]
  ELSE Append(map, [key |-> key, value |-> value])

\* Scores are exact fractions num/den with den > 0.
RatZero == [num |-> 0, den |-> 1]
RatAdd(x, y) == [num |-> x.num * y.den + y.num * x.den, den |-> x.den * y.den]
RatLess(x, y) == x.num * y.den < y.num * x.den

RRF_K == 60
Rrf(idx) == [num |-> 1, den |-> RRF_K + idx + 1]

\* Mutant: a second occurrence overwrites the score instead of adding to it.
AddScore_Overwrite(prev, rrf) == rrf

\* (scores.get(id) || 0) + rrf
AddScore(prev, rrf) == RatAdd(prev, rrf)

\* { ...later, ...existing }: the keys of both, the existing value on the
\* keys of both
SpreadMerge(later, existing) ==
  [key \in DOMAIN later \cup DOMAIN existing |->
     IF key \in DOMAIN existing THEN existing[key] ELSE later[key]]

\* Mutant: the later occurrence wins on score and on duplicate keys.
MergedMatch_LaterWins(id, existing, match) ==
  [id |-> id,
   score |-> IF match.score # <<>> THEN match.score ELSE existing.score,
   metadata |-> SpreadMerge(existing.metadata, match.metadata)]

\* The entry stored for an id that is seen again.
MergedMatch(id, existing, match) ==
  [id |-> id,
   score |-> IF existing.score # <<>> THEN existing.score ELSE match.score,
   metadata |-> SpreadMerge(match.metadata, existing.metadata)]

\* One call of the forEach callback of addList, for list[idx + 1].
AddMatch(st, match, idx) ==
  LET id == match.id
      prev == IF MapHas(st.scores, id) THEN MapGet(st.scores, id) ELSE RatZero
  IN [scores |-> MapSet(st.scores, id, AddScore(prev, Rrf(idx))),
      meta   |-> IF ~MapHas(st.meta, id)
                 THEN MapSet(st.meta, id, match)
                 ELSE MapSet(st.meta, id, MergedMatch(id, MapGet(st.meta, id), match))]

RECURSIVE AddListFrom(_, _, _)
AddListFrom(st, list, idx) ==
  IF idx >= Len(list) THEN st
  ELSE AddListFrom(AddMatch(st, list[idx + 1], idx), list, idx + 1)

addList(st, list) == AddListFrom(st, list, 0)

\* Mutant: an entry is put before the entries of equal score.
InsertByScore_BeforeEqual(sorted, e) ==
  LET notGreater == { i \in DOMAIN sorted : ~RatLess(e.value, sorted[i].value) }
      pos == IF notGreater = {} THEN Len(sorted) + 1
             ELSE CHOOSE i \in notGreater : \A j \in notGreater : i <= j
  IN SubSeq(sorted, 1, pos - 1) \o <<e>> \o SubSeq(sorted, pos, Len(sorted))

\* Where a stable descending sort puts an entry among those already sorted:
\* after every entry whose score is not smaller.
InsertByScore(sorted, e) ==
  LET smaller == { i \in DOMAIN sorted : RatLess(sorted[i].value, e.value) }
      pos == IF smaller = {} THEN Len(sorted) + 1
             ELSE CHOOSE i \in smaller : \A j \in smaller : i <= j
  IN SubSeq(sorted, 1, pos - 1) \o <<e>> \o SubSeq(sorted, pos, Len(sorted))

RECURSIVE SortByScoreDesc(_)
\* .sort((a, b) => b[1] - a[1]), a stable sort
SortByScoreDesc(entries) ==
  IF entries = <<>> THEN <<>>
  ELSE InsertByScore(SortByScoreDesc(SubSeq(entries, 1, Len(entries) - 1)),
                     entries[Len(entries)])

\* Mutant: the sorted list is not truncated.
fuseResults_NoSlice(denseList, sparseList, k) ==
  LET st == addList(addList([scores |-> <<>>, meta |-> <<>>], denseList), sparseList)
      sorted == SortByScoreDesc(st.scores)
  IN [i \in DOMAIN sorted |-> MapGet(st.meta, sorted[i].key)]

fuseResults(denseList, sparseList, k) ==
  LET st == addList(addList([scores |-> <<>>, meta |-> <<>>], denseList), sparseList)
      top == Slice(SortByScoreDesc(st.scores), 0, k)
  IN [i \in DOMAIN top |-> MapGet(st.meta, top[i].key)]

\* fuseResults is called with two ranked lists and a top-K.
Fuse ==
  /\ fpc = "input"
  /\ fused' = fuseResults(dense, sparse, topK)
  /\ fpc' = "fused"
  /\ UNCHANGED <<dense, sparse, topK, chunkVars, citeVars, chatVars, scanVars, batchVars,
                 elemVars, sseVars, clientVars, promptVars, lookupVars>>

InitFuse ==
  /\ IdleLookup
  /\ IdlePrompt
  /\ IdleClient
  /\ IdleSse
  /\ IdleElem
  /\ IdleScan
  /\ IdleBatch
  /\ IdleChunk
  /\ IdleCite
  /\ IdleChat
  /\ dense \in DenseLists
  /\ sparse \in SparseLists
  /\ topK \in 0..MaxTopK
  /\ fused = <<>>
  /\ fpc = "input"

NextFuse == Fuse

SpecFuse == InitFuse /\ [][NextFuse]_vars

(***************************************************************************)
(* Claims about the fusion                                                 *)
(***************************************************************************)
IdsOf(list) == [i \in DOMAIN list |-> list[i].id]

\* 0-based rank of an id in a ranked list that contains it
RankOf(list, id) == (CHOOSE i \in DOMAIN list : list[i].id = id) - 1

RECURSIVE ProductFrom(_, _)
ProductFrom(n, count) == IF count = 0 THEN 1 ELSE n * ProductFrom(n + 1, count - 1)

\* A common denominator of the contributions 1/(60 + r + 1), r < MaxListLen + 1
CommonDen == ProductFrom(61, MaxListLen + 1)

\* The claimed fused score of an id, times CommonDen: the sum over the lists
\* that contain it of 1/(60 + r + 1)
ClaimedScore(id) ==
  (IF id \in Range(IdsOf(dense)) THEN CommonDen \div (60 + RankOf(dense, id) + 1) ELSE 0)
  + (IF id \in Range(IdsOf(sparse)) THEN CommonDen \div (60 + RankOf(sparse, id) + 1) ELSE 0)

\* C6: fuseResults orders the ids by descending fused score (the sum of
\* 1/(60 + r + 1) over the lists containing the id), the ids cut off by the
\* truncation score no higher than the ids kept, and dense [a,b,c] with
\* sparse [b,d,a] fuses to b, a, d, c.
C6_OrderedByFusedScore ==
  fpc = "fused" =>
    LET ids == IdsOf(fused) IN
    /\ \A i, j \in DOMAIN ids : i < j => ClaimedScore(ids[i]) >= ClaimedScore(ids[j])
    /\ \A id \in (Range(IdsOf(dense)) \cup Range(IdsOf(sparse))) \ Range(ids) :
         \A i \in DOMAIN ids : ClaimedScore(ids[i]) >= ClaimedScore(id)
    /\ (IdsOf(dense) = <<"a", "b", "c">> /\ IdsOf(sparse) = <<"b", "d", "a">> /\ topK >= 4)
         => ids = <<"b", "a", "d", "c">>

C6_Witness ==
  /\ fpc = "fused"
  /\ IdsOf(dense) = <<"a", "b", "c">>
  /\ IdsOf(sparse) = <<"b", "d", "a">>
  /\ topK = 4
  /\ IdsOf(fused) = <<"b", "a", "d", "c">>

\* C7: the fused list contains each chunk id at most once, has at most topK
\* entries, and contains only ids of the dense or the sparse list.
C7_FusedDedupTruncated ==
  fpc = "fused" =>
    /\ \A i, j \in DOMAIN fused : i # j => fused[i].id # fused[j].id
    /\ Len(fused) <= topK
    /\ \A i \in DOMAIN fused :
         fused[i].id \in Range(IdsOf(dense)) \cup Range(IdsOf(sparse))

\* an id of both lists is returned once and the truncation drops an id
C7_Witness ==
  /\ fpc = "fused"
  /\ topK > 0
  /\ Len(fused) = topK
  /\ Cardinality(Range(IdsOf(dense)) \cup Range(IdsOf(sparse))) > topK
  /\ \E i \in DOMAIN fused :
       fused[i].id \in Range(IdsOf(dense)) \cap Range(IdsOf(sparse))

\* 0-based index at which the scan of the dense list followed by the sparse
\* list first sees an id
FirstSeen(id) ==
  IF id \in Range(IdsOf(dense)) THEN RankOf(dense, id)
  ELSE Len(dense) + RankOf(sparse, id)

\* C30: of two ids with the same fused score the one the scan saw first
\* comes first, and it is the one kept if the truncation drops one of them;
\* an id that is only at dense rank r precedes an id that is only at sparse
\* rank r.
C30_TiesByFirstSeen ==
  fpc = "fused" =>
    LET ids == IdsOf(fused)
        seen == Range(IdsOf(dense)) \cup Range(IdsOf(sparse))
    IN /\ \A i, j \in DOMAIN ids :
            (i < j /\ ClaimedScore(ids[i]) = ClaimedScore(ids[j])) =>
              FirstSeen(ids[i]) < FirstSeen(ids[j])
       /\ \A id \in seen \ Range(ids) :
            \A i \in DOMAIN ids :
              ClaimedScore(ids[i]) = ClaimedScore(id) => FirstSeen(ids[i]) < FirstSeen(id)
       /\ \A i, j \in DOMAIN ids :
            (/\ ids[i] \in Range(IdsOf(dense)) \ Range(IdsOf(sparse))
             /\ ids[j] \in Range(IdsOf(sparse)) \ Range(IdsOf(dense))
             /\ RankOf(dense, ids[i]) = RankOf(sparse, ids[j])) => i < j

\* two pairs of ids tie, each a dense-only and a sparse-only id of one
\* rank, and the truncation separates the second pair
C30_Witness ==
  /\ fpc = "fused"
  /\ IdsOf(dense) = <<"a", "b">>
  /\ IdsOf(sparse) = <<"c", "d">>
  /\ topK = 3
  /\ IdsOf(fused) = <<"a", "c", "b">>

InBothLists == Range(IdsOf(dense)) \cap Range(IdsOf(sparse))

HitOf(list, id) == list[CHOOSE i \in DOMAIN list : list[i].id = id]

\* the same lists with other scores on the hits
Rescored(list) ==
  [i \in DOMAIN list |->
     [list[i] EXCEPT !.score = IF @ = <<>> THEN <<1>> ELSE <<1000 - @[1]>>]]

\* C8: for an id of both lists the returned match carries the dense
\* occurrence's score and the union of both metadata objects with the dense
\* value on every key of both; the fused order does not depend on the
\* carried scores.
C8_DenseWinsOnMerge ==
  fpc = "fused" =>
    /\ \A i \in DOMAIN fused :
         fused[i].id \in InBothLists =>
           LET d == HitOf(dense, fused[i].id)
               sp == HitOf(sparse, fused[i].id)
               md == fused[i].metadata
           IN /\ fused[i].score = d.score
              /\ DOMAIN md = DOMAIN d.metadata \cup DOMAIN sp.metadata
              /\ \A key \in DOMAIN d.metadata : md[key] = d.metadata[key]
              /\ \A key \in DOMAIN sp.metadata \ DOMAIN d.metadata :
                   md[key] = sp.metadata[key]
    /\ IdsOf(fuseResults(Rescored(dense), Rescored(sparse), topK)) = IdsOf(fused)

\* a returned id of both lists whose two occurrences differ in score, in the
\* value of a shared key and in their keys
C8_Witness ==
  /\ fpc = "fused"
  /\ \E i \in DOMAIN fused :
       /\ fused[i].id \in InBothLists
       /\ LET d == HitOf(dense, fused[i].id)
              sp == HitOf(sparse, fused[i].id)
          IN /\ d.score # sp.score
             /\ sp.score # <<>>
             /\ "text" \in DOMAIN d.metadata \cap DOMAIN sp.metadata
             /\ d.metadata["text"] # sp.metadata["text"]
             /\ DOMAIN sp.metadata \ DOMAIN d.metadata # {}
             /\ DOMAIN d.metadata \ DOMAIN sp.metadata # {}

(***************************************************************************)
(* Citation validation (POST, after the model's output was parsed)         *)
(***************************************************************************)
\* JSON values of the model's output
JsString(str) == [type |-> "string", value |-> str]
\* a number, kept as its numeral
JsNumber(numeral) == [type |-> "number", value |-> numeral]
JsObject(chunkId) == [type |-> "object", chunk_id |-> chunkId]
JsNull == [type |-> "null"]
JsUndefined == [type |-> "undefined"]

\* typeof item === "string" ? item : item?.chunk_id
ClaimedId(item) ==
  IF item.type = "string" THEN item
  ELSE IF item.type = "object" THEN item.chunk_id
  ELSE JsUndefined

\* citationIds: the string ids claimed by parsed.citations, [] unless it is
\* an array
CitationIdsOf(claimed) ==
  IF claimed.isArray
  THEN LET ids == [i \in DOMAIN claimed.items |-> ClaimedId(claimed.items[i])]
           IsString(v) == v.type = "string"
           kept == SelectSeq(ids, IsString)
       IN [i \in DOMAIN kept |-> kept[i].value]
  ELSE <<>>

\* Mutant: the claimed ids are not deduplicated.
DedupFirst_Keep(list) == list

RECURSIVE DedupFirst(_)
\* [...new Set(list)]: the first occurrence of every value, in order
DedupFirst(list) ==
  IF list = <<>> THEN <<>>
  ELSE LET front == DedupFirst(SubSeq(list, 1, Len(list) - 1))
           last == list[Len(list)]
       IN IF last \in Range(front) THEN front ELSE Append(front, last)

RECURSIVE MapOfMatches(_)
\* new Map(matches.map((match) => [match.id, match]))
MapOfMatches(list) ==
  IF list = <<>> THEN <<>>
  ELSE MapSet(MapOfMatches(SubSeq(list, 1, Len(list) - 1)),
              list[Len(list)].id, list[Len(list)])

\* md[key], <<>> when the key is absent
Field(md, key) == IF key \in DOMAIN md THEN <<md[key]>> ELSE <<>>

\* a ?? b
Coalesce(a, b) == IF a # <<>> THEN a ELSE b

\* The citation sent for a claimed id that is in the match map.
CitationOf(id, match) ==
  LET md == match.metadata IN
  [chunk_id     |-> id,
   doc_id       |-> Field(md, "doc_id"),
   page         |-> Coalesce(Field(md, "page_start"), Field(md, "page")),
   para_start   |-> Field(md, "para_start"),
   para_end     |-> Field(md, "para_end"),
   section_path |-> Field(md, "section_path"),
   source_url   |-> Field(md, "source_url")]

\* The citations computed from parsed.citations and the matches.
ValidateCitations(claimed, matchList) ==
  LET matchMap == MapOfMatches(matchList)
      InMap(id) == MapHas(matchMap, id)
      known == SelectSeq(DedupFirst(CitationIdsOf(claimed)), InMap)
  IN [i \in DOMAIN known |-> CitationOf(known[i], MapGet(matchMap, known[i]))]

\* What retrieval returned for the chunks x, y, z.
CiteHit(id) ==
  [id |-> id,
   score |-> <<50>>,
   metadata |-> CASE id = "x" -> [doc_id |-> "rule6.pdf", page_start |-> 4,
                                  para_start |-> 2, para_end |-> 5,
                                  section_path |-> "Rule 6",
                                  source_url |-> "/pdfs/rule6.pdf#page=4"]
                  [] id = "y" -> [doc_id |-> "rule7.pdf", page |-> 9]
                  [] OTHER -> <<>>]

CiteMatchLists ==
  { <<CiteHit("x"), CiteHit("y"), CiteHit("z")>>,
    <<CiteHit("z"), CiteHit("x")>>,
    <<CiteHit("y")>>,
    <<>> }

\* What the model may put into its citations array.
ClaimItems ==
  { JsString("x"), JsString("y"), JsString("q"), JsObject(JsString("z")),
    JsObject(JsNumber("7")), JsNull }

ClaimedLists ==
  { [isArray |-> TRUE, items |-> l] :
      l \in UNION { [1..m -> ClaimItems] : m \in 0..MaxClaimed } }
  \cup { [isArray |-> FALSE, items |-> <<>>] }

\* The handler validates the citations of a parsed model output.
Validate ==
  /\ vpc = "input"
  /\ vCitations' = ValidateCitations(vClaimed, vMatches)
  /\ vpc' = "validated"
  /\ UNCHANGED <<vMatches, vClaimed, chunkVars, fuseVars, chatVars, scanVars, batchVars,
                 elemVars, sseVars, clientVars, promptVars, lookupVars>>

InitCite ==
  /\ IdleLookup
  /\ IdlePrompt
  /\ IdleClient
  /\ IdleSse
  /\ IdleElem
  /\ IdleScan
  /\ IdleBatch
  /\ IdleChunk
  /\ IdleFuse
  /\ IdleChat
  /\ vMatches \in CiteMatchLists
  /\ vClaimed \in ClaimedLists
  /\ vCitations = <<>>
  /\ vpc = "input"

NextCite == Validate

SpecCite == InitCite /\ [][NextCite]_vars

(***************************************************************************)
(* Claims about the citation validation                                    *)
(***************************************************************************)
\* the item names the chunk id, as a string or as an object's chunk_id
Names(item, id) ==
  \/ item.type = "string" /\ item.value = id
  \/ item.type = "object" /\ item.chunk_id.type = "string" /\ item.chunk_id.value = id

ClaimedIdSet(claimed) ==
  IF claimed.isArray
  THEN { id \in {"x", "y", "z", "q", "a", "b", "c", "d", "zz"} :
           \E i \in DOMAIN claimed.items : Names(claimed.items[i], id) }
  ELSE {}

FirstClaimAt(claimed, id) ==
  CHOOSE i \in DOMAIN claimed.items :
    /\ Names(claimed.items[i], id)
    /\ \A j \in 1..(i - 1) : ~Names(claimed.items[j], id)

\* C9: the validation returns the claimed ids without duplicates, exactly
\* those that are ids of retrieved matches, in order of first occurrence,
\* each with the provenance of its match; ids that are not retrieved are
\* dropped and the validation still completes.  Matches {x,y,z} with claimed
\* [x, q, x, y] give [x, y].
C9_ValidatedCitations ==
  vpc = "validated" =>
    LET ids == [i \in DOMAIN vCitations |-> vCitations[i].chunk_id]
        wanted == ClaimedIdSet(vClaimed) \cap Range(IdsOf(vMatches))
    IN /\ \A i, j \in DOMAIN ids : i # j => ids[i] # ids[j]
       /\ Range(ids) = wanted
       /\ \A i, j \in DOMAIN ids :
            i < j => FirstClaimAt(vClaimed, ids[i]) < FirstClaimAt(vClaimed, ids[j])
       /\ \A i \in DOMAIN ids :
            LET md == HitOf(vMatches, ids[i]).metadata
                c == vCitations[i]
            IN /\ c.doc_id = (IF "doc_id" \in DOMAIN md THEN <<md.doc_id>> ELSE <<>>)
               /\ c.page = (IF "page_start" \in DOMAIN md THEN <<md.page_start>>
                            ELSE IF "page" \in DOMAIN md THEN <<md.page>> ELSE <<>>)
               /\ c.para_start = (IF "para_start" \in DOMAIN md THEN <<md.para_start>> ELSE <<>>)
               /\ c.para_end = (IF "para_end" \in DOMAIN md THEN <<md.para_end>> ELSE <<>>)
               /\ c.section_path = (IF "section_path" \in DOMAIN md
                                    THEN <<md.section_path>> ELSE <<>>)
               /\ c.source_url = (IF "source_url" \in DOMAIN md
                                  THEN <<md.source_url>> ELSE <<>>)
       /\ (IdsOf(vMatches) = <<"x", "y", "z">>
           /\ vClaimed = [isArray |-> TRUE,
                          items |-> <<JsString("x"), JsString("q"), JsString("x"),
                                      JsString("y")>>])
          => ids = <<"x", "y">>

C9_Witness ==
  /\ vpc = "validated"
  /\ IdsOf(vMatches) = <<"x", "y", "z">>
  /\ vClaimed = [isArray |-> TRUE,
                 items |-> <<JsString("x"), JsString("q"), JsString("x"), JsString("y")>>]
  /\ Len(vCitations) = 2
  /\ vCitations[1].chunk_id = "x"
  /\ vCitations[1].page = <<4>>
  /\ vCitations[2].chunk_id = "y"
  /\ vCitations[2].page = <<9>>

(***************************************************************************)
(* The streaming answer extractor: createAnswerStreamExtractor             *)
(***************************************************************************)
QUOTE == "\""
BACKSLASH == "\\"

\* isWhitespace
isWhitespace(char) == char \in {" ", "\n", "\t", "\r"}

\* /^[0-9a-fA-F]$/.test(char)
HexDigitValues ==
  << <<"0", 0>>, <<"1", 1>>, <<"2", 2>>, <<"3", 3>>, <<"4", 4>>, <<"5", 5>>,
     <<"6", 6>>, <<"7", 7>>, <<"8", 8>>, <<"9", 9>>,
     <<"a", 10>>, <<"b", 11>>, <<"c", 12>>, <<"d", 13>>, <<"e", 14>>, <<"f", 15>>,
     <<"A", 10>>, <<"B", 11>>, <<"C", 12>>, <<"D", 13>>, <<"E", 14>>, <<"F", 15>> >>

IsHexDigit(char) == \E i \in DOMAIN HexDigitValues : HexDigitValues[i][1] = char

HexDigitValue(char) ==
  HexDigitValues[CHOOSE i \in DOMAIN HexDigitValues : HexDigitValues[i][1] = char][2]

RECURSIVE ParseHex(_)
\* parseInt(digits, 16)
ParseHex(digits) ==
  IF digits = <<>> THEN 0
  ELSE 16 * ParseHex(SubSeq(digits, 1, Len(digits) - 1))
       + HexDigitValue(digits[Len(digits)])

\* String.fromCharCode, for the code units that occur in the texts of the
\* model: the characters outside ASCII are written by their names.
CodeUnits ==
  << <<65, "A">>, <<8212, "EMDASH">>, <<57856, "E200">>, <<57857, "E201">>,
     <<57858, "E202">> >>

FromCharCode(code) ==
  IF \E i \in DOMAIN CodeUnits : CodeUnits[i][1] = code
  THEN CodeUnits[CHOOSE i \in DOMAIN CodeUnits : CodeUnits[i][1] = code][2]
  ELSE "U+????"

\* Mutant: an escaped character is passed through as it is written.
UnescapeChar_Literal(char) == char

\* the switch of the answerEscape branch
UnescapeChar(char) ==
  CASE char = QUOTE -> QUOTE
    [] char = BACKSLASH -> BACKSLASH
    [] char = "n" -> "\n"
    [] char = "r" -> "\r"
    [] char = "t" -> "\t"
    [] char = "b" -> "BS"
    [] char = "f" -> "\f"
    [] OTHER -> char

AnswerKeyName == <<"a", "n", "s", "w", "e", "r">>

\* One iteration of push's loop: the state after the character and the
\* characters added to emitted.
ExtractorStep(st, char) ==
  IF st.inAnswerValue THEN
    IF st.unicodeBuffer # <<>> THEN
      IF IsHexDigit(char) THEN
        IF Len(st.unicodeBuffer[1]) + 1 = 4
        THEN [st |-> [st EXCEPT !.unicodeBuffer = <<>>, !.answerEscape = FALSE],
              emitted |-> <<FromCharCode(ParseHex(Append(st.unicodeBuffer[1], char)))>>]
        ELSE [st |-> [st EXCEPT !.unicodeBuffer = <<Append(st.unicodeBuffer[1], char)>>],
              emitted |-> <<>>]
      ELSE [st |-> [st EXCEPT !.unicodeBuffer = <<>>, !.answerEscape = FALSE],
            emitted |-> <<BACKSLASH, "u">> \o st.unicodeBuffer[1] \o <<char>>]
    ELSE IF st.answerEscape THEN
      IF char = "u"
      THEN [st |-> [st EXCEPT !.unicodeBuffer = << <<>> >>, !.answerEscape = FALSE],
            emitted |-> <<>>]
      ELSE [st |-> [st EXCEPT !.answerEscape = FALSE],
            emitted |-> <<UnescapeChar(char)>>]
    ELSE IF char = BACKSLASH
    THEN [st |-> [st EXCEPT !.answerEscape = TRUE], emitted |-> <<>>]
    ELSE IF char = QUOTE
    THEN [st |-> [st EXCEPT !.inAnswerValue = FALSE], emitted |-> <<>>]
    ELSE [st |-> st, emitted |-> <<char>>]
  ELSE IF st.inString THEN
    IF st.stringEscape
    THEN [st |-> [st EXCEPT !.currentString = Append(@, char), !.stringEscape = FALSE],
          emitted |-> <<>>]
    ELSE IF char = BACKSLASH
    THEN [st |-> [st EXCEPT !.stringEscape = TRUE], emitted |-> <<>>]
    ELSE IF char = QUOTE
    THEN [st |-> [st EXCEPT !.inString = FALSE,
                            !.lastString = st.currentString,
                            !.parsingKey = TRUE,
                            !.currentString = <<>>],
          emitted |-> <<>>]
    ELSE [st |-> [st EXCEPT !.currentString = Append(@, char)], emitted |-> <<>>]
  ELSE IF st.parsingKey /\ isWhitespace(char)
  THEN [st |-> st, emitted |-> <<>>]
  ELSE IF st.parsingKey /\ char = ":"
  THEN [st |-> [st EXCEPT !.expectingAnswerValue =
                            IF st.lastString = AnswerKeyName THEN TRUE ELSE @,
                          !.parsingKey = FALSE],
        emitted |-> <<>>]
  ELSE IF st.expectingAnswerValue THEN
    IF isWhitespace(char)
    THEN [st |-> [st EXCEPT !.parsingKey = FALSE], emitted |-> <<>>]
    ELSE [st |-> [st EXCEPT !.parsingKey = FALSE,
                            !.inAnswerValue = IF char = QUOTE THEN TRUE ELSE @,
                            !.expectingAnswerValue = FALSE],
          emitted |-> <<>>]
  ELSE IF char = QUOTE
  THEN [st |-> [st EXCEPT !.parsingKey = FALSE, !.inString = TRUE,
                          !.currentString = <<>>],
        emitted |-> <<>>]
  ELSE [st |-> [st EXCEPT !.parsingKey = FALSE], emitted |-> <<>>]

RECURSIVE PushFrom(_, _, _)
\* the loop of push from the state st over the characters of chunk
PushFrom(st, chunk, emitted) ==
  IF chunk = <<>> THEN [st |-> st, emitted |-> emitted]
  ELSE LET step == ExtractorStep(st, Head(chunk))
       IN IF step.emitted = <<>>
          THEN PushFrom(step.st, Tail(chunk), emitted)
          ELSE PushFrom(step.st, Tail(chunk), emitted \o step.emitted)

\* Mutant: an escape that has begun is forgotten between two calls.
push_ForgetEscape(st, chunk) ==
  PushFrom([st EXCEPT !.answerEscape = FALSE, !.unicodeBuffer = <<>>], chunk, <<>>)

\* extractor.push(chunk): the state it leaves and the string it returns
push(st, chunk) == PushFrom(st, chunk, <<>>)

(***************************************************************************)
(* JSON texts of the {answer, citations} schema                            *)
(***************************************************************************)
\* One character of an answer string as the JSON text writes it (src) and
\* as JSON.parse decodes it (dec).
AnswerUnits ==
  { [src |-> <<"H">>, dec |-> <<"H">>],
    [src |-> <<"u">>, dec |-> <<"u">>],
    [src |-> <<BACKSLASH, QUOTE>>, dec |-> <<QUOTE>>],
    [src |-> <<BACKSLASH, BACKSLASH>>, dec |-> <<BACKSLASH>>],
    [src |-> <<BACKSLASH, "n">>, dec |-> <<"\n">>],
    [src |-> <<BACKSLASH, "u", "2", "0", "1", "4">>, dec |-> <<"EMDASH">>] }

RECURSIVE SourceOf(_)
SourceOf(units) ==
  IF units = <<>> THEN <<>> ELSE Head(units).src \o SourceOf(Tail(units))

RECURSIVE DecodedOf(_)
DecodedOf(units) ==
  IF units = <<>> THEN <<>> ELSE Head(units).dec \o DecodedOf(Tail(units))

\* The layouts of the text: without whitespace; with whitespace around every
\* token and a citation whose id is the word answer; without whitespace and
\* with the first letter of the answer key written as an escape.
Layouts == {"compact", "spaced", "escapedKey"}

JsonDocs ==
  [units : UNION { [1..n -> AnswerUnits] : n \in 0..MaxAnswerUnits },
   answerFirst : BOOLEAN,
   layout : Layouts]

AnswerMember(doc) ==
  CASE doc.layout = "compact" ->
         <<QUOTE>> \o AnswerKeyName \o <<QUOTE, ":", QUOTE>>
         \o SourceOf(doc.units) \o <<QUOTE>>
    [] doc.layout = "spaced" ->
         <<QUOTE>> \o AnswerKeyName \o <<QUOTE, " ", ":", "\n", QUOTE>>
         \o SourceOf(doc.units) \o <<QUOTE, " ">>
    [] doc.layout = "escapedKey" ->
         <<QUOTE, BACKSLASH, "u", "0", "0", "6", "1", "n", "s", "w", "e", "r",
           QUOTE, ":", QUOTE>>
         \o SourceOf(doc.units) \o <<QUOTE>>

CitationsMember(doc) ==
  <<QUOTE, "c", "i", "t", "a", "t", "i", "o", "n", "s", QUOTE>>
  \o (IF doc.layout = "spaced"
      THEN <<" ", ":", " ", "[", " ", QUOTE>> \o AnswerKeyName \o <<QUOTE, " ", "]", " ">>
      ELSE <<":", "[", QUOTE, "a", QUOTE, "]">>)

\* the JSON text of the document
DocText(doc) ==
  <<"{">> \o (IF doc.layout = "spaced" THEN <<"\n", " ">> ELSE <<>>)
  \o (IF doc.answerFirst
      THEN AnswerMember(doc) \o <<",">> \o
           (IF doc.layout = "spaced" THEN <<" ">> ELSE <<>>) \o CitationsMember(doc)
      ELSE CitationsMember(doc) \o <<",">> \o
           (IF doc.layout = "spaced" THEN <<" ">> ELSE <<>>) \o AnswerMember(doc))
  \o <<"}">>

\* The lengths of the next fragment: a few characters, or all that is left.
FragmentLengths(text) ==
  { n \in 1..Len(text) : n <= MaxFragmentLen \/ n = Len(text) }

\* The next fragment of the text is pushed into the extractor.
Push ==
  /\ spc = "push"
  /\ upstream # <<>>
  /\ \E n \in FragmentLengths(upstream) :
       LET chunk == SubSeq(upstream, 1, n)
           result == push(extractor, chunk)
       IN /\ extractor' = result.st
          /\ pushed' = pushed \o result.emitted
          /\ fullContent' = fullContent \o chunk
          /\ upstream' = SubSeq(upstream, n + 1, Len(upstream))
          /\ splitInToken' =
               (splitInToken
                \/ (n < Len(upstream) /\ result.st.inAnswerValue
                    /\ (result.st.answerEscape \/ result.st.unicodeBuffer # <<>>)))
  /\ UNCHANGED <<jsonDoc, stripper, cleaned, spc, chunkVars, fuseVars, citeVars,
                 chatVars, batchVars,
                 elemVars, sseVars, clientVars, promptVars, lookupVars>>

\* The text has been pushed completely.
EndOfText ==
  /\ spc = "push"
  /\ upstream = <<>>
  /\ spc' = "end"
  /\ UNCHANGED <<jsonDoc, upstream, fullContent, extractor, pushed, splitInToken,
                 stripper, cleaned, chunkVars, fuseVars, citeVars, chatVars,
                 batchVars,
                 elemVars, sseVars, clientVars, promptVars, lookupVars>>

InitExtract ==
  /\ IdleLookup
  /\ IdlePrompt
  /\ IdleClient
  /\ IdleSse
  /\ IdleElem
  /\ IdleChunk
  /\ IdleFuse
  /\ IdleCite
  /\ IdleChat
  /\ IdleBatch
  /\ jsonDoc \in { <<doc>> : doc \in JsonDocs }
  /\ upstream = DocText(jsonDoc[1])
  /\ fullContent = <<>>
  /\ extractor = NewExtractor
  /\ pushed = <<>>
  /\ splitInToken = FALSE
  /\ stripper = NewStripper
  /\ cleaned = <<>>
  /\ spc = "push"

NextExtract == Push \/ EndOfText

SpecExtract == InitExtract /\ [][NextExtract]_vars

(***************************************************************************)
(* Claims about the answer extractor                                       *)
(***************************************************************************)
IsPrefixOf(short, long) ==
  Len(short) <= Len(long) /\ SubSeq(long, 1, Len(short)) = short

ProbeAnswers ==
  { <<>>,
    << [src |-> <<"H">>, dec |-> <<"H">>] >>,
    << [src |-> <<BACKSLASH, "n">>, dec |-> <<"\n">>],
       [src |-> <<"u">>, dec |-> <<"u">>] >>,
    << [src |-> <<"H">>, dec |-> <<"H">>],
       [src |-> <<BACKSLASH, "u", "2", "0", "1", "4">>, dec |-> <<"EMDASH">>] >>,
    << [src |-> <<BACKSLASH, QUOTE>>, dec |-> <<QUOTE>>],
       [src |-> <<BACKSLASH, BACKSLASH>>, dec |-> <<BACKSLASH>>] >> }

\* What the text has around the answer member: nothing but the citations;
\* whitespace around the colon; a citation whose id is the word answer;
\* members whose value is the word answer and whose key starts with it; a
\* member whose key is a, line feed, swer, written with the escape \n; an
\* answer that is a number.
ProbeKinds == {"plain", "spacedColon", "answerCited", "otherMembers",
               "escapedOtherKey", "numberAnswer"}

ProbeDocs == [units : ProbeAnswers, kind : ProbeKinds]

\* The text up to the first character of the answer string.
ProbeBefore(doc) ==
  CASE doc.kind = "plain" ->
         <<"{", QUOTE>> \o AnswerKeyName \o <<QUOTE, ":", QUOTE>>
    [] doc.kind = "spacedColon" ->
         <<"{", QUOTE>> \o AnswerKeyName \o <<QUOTE, " ", "\t", ":", "\n", " ", QUOTE>>
    [] doc.kind = "answerCited" ->
         <<"{", QUOTE, "c", "i", "t", "a", "t", "i", "o", "n", "s", QUOTE, ":", "[", QUOTE>>
         \o AnswerKeyName \o <<QUOTE, " ", "]", ",", QUOTE>>
         \o AnswerKeyName \o <<QUOTE, ":", QUOTE>>
    [] doc.kind = "otherMembers" ->
         <<"{", QUOTE, "n", "o", "t", "e", QUOTE, ":", QUOTE>> \o AnswerKeyName
         \o <<QUOTE, ",", QUOTE>> \o AnswerKeyName \o <<"s", QUOTE, ":", QUOTE, "x", QUOTE,
              ",", QUOTE>> \o AnswerKeyName \o <<QUOTE, ":", QUOTE>>
    [] doc.kind = "escapedOtherKey" ->
         <<"{", QUOTE, "a", BACKSLASH, "n", "s", "w", "e", "r", QUOTE, ":", QUOTE, "x",
           QUOTE, ",", QUOTE>> \o AnswerKeyName \o <<QUOTE, ":", QUOTE>>
    [] doc.kind = "numberAnswer" ->
         <<"{", QUOTE>> \o AnswerKeyName \o <<QUOTE, ":", "5", ",", QUOTE, "n", QUOTE,
           ":", QUOTE>>

\* The text from the closing quote of the answer string on.
ProbeAfter(doc) ==
  IF doc.kind = "answerCited" THEN <<QUOTE, "}">>
  ELSE <<QUOTE, ",", QUOTE, "c", "i", "t", "a", "t", "i", "o", "n", "s", QUOTE, ":", "[",
         QUOTE, "a", QUOTE, "]", "}">>

ProbeText(doc) == ProbeBefore(doc) \o SourceOf(doc.units) \o ProbeAfter(doc)

\* The answer of the text: of "numberAnswer" the string after the number is
\* the value of another member.
ProbeAnswer(doc) == IF doc.kind = "numberAnswer" THEN <<>> ELSE doc.units

\* The response body ends before the text is complete.
StreamBreaks ==
  /\ spc = "push"
  /\ upstream # <<>>
  /\ spc' = "end"
  /\ UNCHANGED <<jsonDoc, upstream, fullContent, extractor, pushed, splitInToken,
                 stripper, cleaned, chunkVars, fuseVars, citeVars, chatVars,
                 batchVars, elemVars, sseVars, clientVars, promptVars, lookupVars>>

InitTexts ==
  /\ IdleLookup
  /\ IdlePrompt
  /\ IdleClient
  /\ IdleSse
  /\ IdleElem
  /\ IdleChunk
  /\ IdleFuse
  /\ IdleCite
  /\ IdleChat
  /\ IdleBatch
  /\ jsonDoc \in { <<doc>> : doc \in ProbeDocs }
  /\ upstream = ProbeText(jsonDoc[1])
  /\ fullContent = <<>>
  /\ extractor = NewExtractor
  /\ pushed = <<>>
  /\ splitInToken = FALSE
  /\ stripper = NewStripper
  /\ cleaned = <<>>
  /\ spc = "push"

NextTexts == Push \/ EndOfText \/ StreamBreaks

SpecTexts == InitTexts /\ [][NextTexts]_vars

RECURSIVE CompleteUnits(_, _)
\* The units of an answer that are complete within its first k characters.
CompleteUnits(units, k) ==
  IF units = <<>> \/ Len(Head(units).src) > k THEN <<>>
  ELSE <<Head(units)>> \o CompleteUnits(Tail(units), k - Len(Head(units).src))

\* The number of characters of the answer string that have arrived.
AnswerArrived ==
  LET past == Len(fullContent) - Len(ProbeBefore(jsonDoc[1]))
      all  == Len(SourceOf(jsonDoc[1].units))
  IN IF past < 0 THEN 0 ELSE IF past > all THEN all ELSE past

\* C31 as stated: nothing is returned by push except the characters of the
\* string that follows the key answer and its colon: what has been returned
\* is the decoded part of that string that has arrived, whatever other
\* keys, strings and structural characters the text has.
C31_OnlyAnswerValueEmitted ==
  (spc # "idle" /\ jsonDoc # <<>> /\ "kind" \in DOMAIN jsonDoc[1]) =>
    pushed = DecodedOf(CompleteUnits(ProbeAnswer(jsonDoc[1]), AnswerArrived))

\* C32: inside the answer string nothing is returned for an escape that
\* has begun until its last character has arrived, and then the decoded
\* character is returned: what push has returned so far is the decoded
\* text of the units that have arrived completely; this is also all that
\* was returned when the stream ended inside the string or inside an
\* escape.
C32_PendingEscapeEmitsNothing ==
  (spc # "idle" /\ jsonDoc # <<>> /\ "kind" \in DOMAIN jsonDoc[1]
   /\ jsonDoc[1].kind \notin {"escapedOtherKey", "numberAnswer"}) =>
    /\ pushed = DecodedOf(CompleteUnits(jsonDoc[1].units, AnswerArrived))
    /\ (extractor.answerEscape \/ extractor.unicodeBuffer # <<>>) =>
         /\ extractor.inAnswerValue
         /\ Len(CompleteUnits(jsonDoc[1].units, AnswerArrived)) < Len(jsonDoc[1].units)
    /\ spc = "end" => pushed = push(NewExtractor, fullContent).emitted

\* the stream ended after the second hex digit of an escape that had been
\* split over two fragments; the H before the escape is all that was
\* returned
C32_Witness ==
  /\ spc = "end"
  /\ upstream # <<>>
  /\ jsonDoc[1].kind = "spacedColon"
  /\ extractor.inAnswerValue
  /\ extractor.unicodeBuffer = << <<"2", "0">> >>
  /\ splitInToken
  /\ pushed = <<"H">>

(***************************************************************************)
(* The chat handler: POST                                                  *)
(***************************************************************************)
WhitespaceChars == {" ", "\n", "\t", "\r"}

RECURSIVE Trim(_)
\* String.prototype.trim
Trim(str) ==
  IF str = <<>> THEN <<>>
  ELSE IF Head(str) \in WhitespaceChars THEN Trim(Tail(str))
  ELSE IF str[Len(str)] \in WhitespaceChars THEN Trim(SubSeq(str, 1, Len(str) - 1))
  ELSE str

\* The private-use characters U+E200, U+E201, U+E202 are written "E200",
\* "E201", "E202".
INLINE_CITE_START == <<"E200", "c", "i", "t", "e", "E202">>
INLINE_CITE_END == <<"E201">>

StartsWith(str, prefix) ==
  Len(str) >= Len(prefix) /\ SubSeq(str, 1, Len(prefix)) = prefix

\* str.indexOf(token, from), 0-based, -1 when there is none
IndexOf(str, token, from) ==
  LET hits == { i \in from..(Len(str) - Len(token)) :
                  SubSeq(str, i + 1, i + Len(token)) = token }
  IN IF hits = {} THEN -1 ELSE CHOOSE i \in hits : \A j \in hits : i <= j

RECURSIVE RemoveMarkers(_)
\* .replace(/<start>[^<end>]*<end>/g, ""): every start token up to the
\* first end character after it is removed; a start token that no end
\* character follows stays
RemoveMarkers(str) ==
  IF str = <<>> THEN <<>>
  ELSE IF StartsWith(str, INLINE_CITE_START)
          /\ IndexOf(str, INLINE_CITE_END, Len(INLINE_CITE_START)) # -1
  THEN RemoveMarkers(SubSeq(str, IndexOf(str, INLINE_CITE_END,
                                         Len(INLINE_CITE_START)) + 2, Len(str)))
  ELSE <<Head(str)>> \o RemoveMarkers(Tail(str))

stripInlineCitations(text) == IF text = <<>> THEN text ELSE Trim(RemoveMarkers(text))

(***************************************************************************)
(* The streaming citation stripper: createInlineCitationStripper           *)
(***************************************************************************)
\* Mutant: one character too few is held back at the end of a fragment.
HoldBack_Short == Len(INLINE_CITE_START) - 2

\* startLen - 1: the characters held back when no start token is found
HoldBack == Len(INLINE_CITE_START) - 1

RECURSIVE StripFrom(_, _, _, _)
\* the while loop of the stripper over text from index i
StripFrom(text, i, inCite, out) ==
  IF i >= Len(text) THEN [st |-> [inCite |-> inCite, carry |-> <<>>], out |-> out]
  ELSE IF inCite THEN
    IF IndexOf(text, INLINE_CITE_END, i) = -1
    THEN [st |-> [inCite |-> TRUE, carry |-> <<>>], out |-> out]
    ELSE StripFrom(text, IndexOf(text, INLINE_CITE_END, i) + Len(INLINE_CITE_END),
                   FALSE, out)
  ELSE IF IndexOf(text, INLINE_CITE_START, i) = -1 THEN
    IF Len(text) - i >= HoldBack
    THEN [st |-> [inCite |-> FALSE, carry |-> Slice(text, Len(text) - HoldBack, Len(text))],
          out |-> out \o Slice(text, i, Len(text) - HoldBack)]
    ELSE [st |-> [inCite |-> FALSE, carry |-> Slice(text, i, Len(text))], out |-> out]
  ELSE StripFrom(text, IndexOf(text, INLINE_CITE_START, i) + Len(INLINE_CITE_START),
                 TRUE, out \o Slice(text, i, IndexOf(text, INLINE_CITE_START, i)))

\* the stripper without the text it held back at the previous call
strip_DropCarry(st, chunk) ==
  IF chunk = <<>> THEN [st |-> st, out |-> <<>>]
  ELSE StripFrom(chunk, 0, st.inCite, <<>>)

\* One call of the stripper: the state it leaves and the string it returns.
strip(st, chunk) ==
  IF chunk = <<>> THEN [st |-> st, out |-> <<>>]
  ELSE StripFrom(st.carry \o chunk, 0, st.inCite, <<>>)

(***************************************************************************)
(* Decoded answers with inline citation markers                            *)
(***************************************************************************)
\* The pieces of an answer: a letter, a full stop, a word that is longer
\* than what the stripper holds back, a complete marker, and the first two
\* characters of a start token that no marker follows.
AnswerPieces ==
  { [chars |-> <<"x">>, marker |-> FALSE],
    [chars |-> <<".">>, marker |-> FALSE],
    [chars |-> <<"s", "o", "u", "r", "c", "e", "s">>, marker |-> FALSE],
    [chars |-> INLINE_CITE_START \o <<"r">> \o INLINE_CITE_END, marker |-> TRUE],
    [chars |-> <<"E200", "c">>, marker |-> FALSE] }

MarkedAnswers == UNION { [1..n -> AnswerPieces] : n \in 0..MaxPieces }

RECURSIVE CharsOf(_)
CharsOf(pieces) ==
  IF pieces = <<>> THEN <<>> ELSE Head(pieces).chars \o CharsOf(Tail(pieces))

RECURSIVE TextOf(_)
\* the characters of the pieces that are not markers
TextOf(pieces) ==
  IF pieces = <<>> THEN <<>>
  ELSE (IF Head(pieces).marker THEN <<>> ELSE Head(pieces).chars) \o TextOf(Tail(pieces))

\* the fragment boundary between done and rest lies inside a start token
SplitsStartToken(done, rest) ==
  \E k \in 1..(Len(INLINE_CITE_START) - 1) :
    /\ Len(done) >= k
    /\ SubSeq(done, Len(done) - k + 1, Len(done)) = SubSeq(INLINE_CITE_START, 1, k)
    /\ StartsWith(rest, SubSeq(INLINE_CITE_START, k + 1, Len(INLINE_CITE_START)))

\* The next fragment of the decoded answer is passed to the stripper.
Feed ==
  /\ spc = "strip"
  /\ upstream # <<>>
  /\ \E n \in FragmentLengths(upstream) :
       LET chunk == SubSeq(upstream, 1, n)
           result == strip(stripper, chunk)
       IN /\ stripper' = result.st
          /\ cleaned' = cleaned \o result.out
          /\ fullContent' = fullContent \o chunk
          /\ upstream' = SubSeq(upstream, n + 1, Len(upstream))
          /\ splitInToken' =
               (splitInToken
                \/ SplitsStartToken(fullContent \o chunk,
                                    SubSeq(upstream, n + 1, Len(upstream))))
  /\ UNCHANGED <<jsonDoc, extractor, pushed, spc, chunkVars, fuseVars, citeVars,
                 chatVars, batchVars,
                 elemVars, sseVars, clientVars, promptVars, lookupVars>>

\* The last fragment has been passed; the stripper is not called again.
EndOfAnswer ==
  /\ spc = "strip"
  /\ upstream = <<>>
  /\ spc' = "end"
  /\ UNCHANGED <<jsonDoc, upstream, fullContent, extractor, pushed, splitInToken,
                 stripper, cleaned, chunkVars, fuseVars, citeVars, chatVars,
                 batchVars,
                 elemVars, sseVars, clientVars, promptVars, lookupVars>>

InitStrip ==
  /\ IdleLookup
  /\ IdlePrompt
  /\ IdleClient
  /\ IdleSse
  /\ IdleElem
  /\ IdleChunk
  /\ IdleFuse
  /\ IdleCite
  /\ IdleChat
  /\ IdleBatch
  /\ jsonDoc \in { <<pieces>> : pieces \in MarkedAnswers }
  /\ upstream = CharsOf(jsonDoc[1])
  /\ fullContent = <<>>
  /\ extractor = NewExtractor
  /\ pushed = <<>>
  /\ splitInToken = FALSE
  /\ stripper = NewStripper
  /\ cleaned = <<>>
  /\ spc = "strip"

NextStrip == Feed \/ EndOfAnswer

SpecStrip == InitStrip /\ [][NextStrip]_vars

(***************************************************************************)
(* Claims about the citation stripper                                      *)
(***************************************************************************)
MarkerChars == Range(INLINE_CITE_START) \cup Range(INLINE_CITE_END)

RECURSIVE OutsideMarkers(_)
\* The characters of a text that lie outside its markers, a marker being a
\* start token and everything up to the next end token, or up to the end of
\* the text when no end token has arrived yet.
OutsideMarkers(text) ==
  IF IndexOf(text, INLINE_CITE_START, 0) = -1 THEN text
  ELSE LET s == IndexOf(text, INLINE_CITE_START, 0)
           e == IndexOf(text, INLINE_CITE_END, s + Len(INLINE_CITE_START))
       IN Slice(text, 0, s)
          \o (IF e = -1 THEN <<>>
              ELSE OutsideMarkers(Slice(text, e + Len(INLINE_CITE_END), Len(text))))

\* C33: after every call of the stripper the text it holds back is at most
\* one character shorter than the start token, it is empty while the stripper
\* is inside a marker, and what it has returned so far followed by what it
\* holds back is exactly the received text that lies outside the markers.
C33_CarryBounded ==
  (spc \in {"strip", "end"} /\ jsonDoc # <<>>) =>
    /\ Len(stripper.carry) <= Len(INLINE_CITE_START) - 1
    /\ stripper.inCite => stripper.carry = <<>>
    /\ cleaned \o stripper.carry = OutsideMarkers(fullContent)

\* of the answer sources<marker>. the word, the start token and the source
\* id have been passed, in fragments of which one ended inside the start
\* token: the stripper is inside the marker, holds nothing back and has
\* returned the whole word
C33_Witness ==
  /\ spc = "strip"
  /\ splitInToken
  /\ stripper.inCite
  /\ stripper.carry = <<>>
  /\ fullContent = <<"s", "o", "u", "r", "c", "e", "s">> \o INLINE_CITE_START \o <<"r">>
  /\ cleaned = <<"s", "o", "u", "r", "c", "e", "s">>
  /\ upstream = INLINE_CITE_END \o <<".">>

\* The output parsed as JSON: form "json" parses directly, form "wrapped" has
\* prose around one {...} span that parses, form "garbage" parses neither
\* way; <<>> for null.
extractJson(text) ==
  IF text.form \in {"json", "wrapped"} THEN <<text.value>> ELSE <<>>

NoAnswerMessage == "I could not extract a supported answer from the sources."

\* typeof parsed?.answer === "string" ? stripInlineCitations(parsed.answer) : ""
AnswerOf(parsed) ==
  IF parsed # <<>> /\ parsed[1].answer.type = "string"
  THEN stripInlineCitations(parsed[1].answer.value)
  ELSE <<>>

\* Mutant: the answer is sent as it was extracted.
FinalAnswer_Raw(parsed) == [text |-> AnswerOf(parsed)]

\* answer || "I could not extract a supported answer from the sources."
FinalAnswer(parsed) ==
  IF AnswerOf(parsed) # <<>> THEN [text |-> AnswerOf(parsed)]
  ELSE [text |-> <<NoAnswerMessage>>]

\* Array.isArray(parsed?.citations) ? parsed.citations : not an array
ClaimedOf(parsed) ==
  IF parsed # <<>> THEN parsed[1].citations
  ELSE [isArray |-> FALSE, items |-> <<>>]

\* Mutant: the citations are validated against everything the two searches
\* returned, not against the list handed to the model.
ValidationMatches_AllRetrieved == denseMatches \o sparseMatches

\* The matches the match map of the validation is built from.
ValidationMatches == matches

\* The {answer, citations} payload computed from the model's raw output.
AnswerPayload(output) ==
  [answer |-> FinalAnswer(extractJson(output)),
   citations |-> ValidateCitations(ClaimedOf(extractJson(output)), ValidationMatches)]

\* The messages a completion call fails with: rejections of the schema by
\* the completion service, another failure of the service, and the
\* message of the error that controller.abort() makes fetch and
\* reader.read() throw.
SchemaLikeMessages ==
  { "OpenRouter error: 400 response_format is not supported by this model",
    "OpenRouter error: 400 Unsupported parameter" }
OtherMessages == { "OpenRouter error: 500 upstream failure" }
AbortMessages == { "This operation was aborted" }
\* the message of the error that reader.read() throws when the connection
\* ends before the body does
ReadFailureMessages == { "terminated" }

\* The characters of a message.
MessageChars(message) ==
  CASE message = "OpenRouter error: 400 response_format is not supported by this model" ->
         <<"O","p","e","n","R","o","u","t","e","r"," ","e","r","r","o","r",
           ":"," ","4","0","0"," ","r","e","s","p","o","n","s","e","_","f",
           "o","r","m","a","t"," ","i","s"," ","n","o","t"," ","s","u","p",
           "p","o","r","t","e","d"," ","b","y"," ","t","h","i","s"," ","m",
           "o","d","e","l">>
    [] message = "OpenRouter error: 400 Unsupported parameter" ->
         <<"O","p","e","n","R","o","u","t","e","r"," ","e","r","r","o","r",
           ":"," ","4","0","0"," ","U","n","s","u","p","p","o","r","t","e",
           "d"," ","p","a","r","a","m","e","t","e","r">>
    [] message = "OpenRouter error: 500 upstream failure" ->
         <<"O","p","e","n","R","o","u","t","e","r"," ","e","r","r","o","r",
           ":"," ","5","0","0"," ","u","p","s","t","r","e","a","m"," ","f",
           "a","i","l","u","r","e">>
    [] message = "terminated" ->
         <<"t","e","r","m","i","n","a","t","e","d">>
    [] message = "This operation was aborted" ->
         <<"T","h","i","s"," ","o","p","e","r","a","t","i","o","n"," ","w",
           "a","s"," ","a","b","o","r","t","e","d">>

\* Mutant: the message of an aborted call counts as a schema rejection.
StructuredErrorPatterns_WithAbort ==
  { <<"r","e","s","p","o","n","s","e","_","f","o","r","m","a","t">>, <<"j","s","o","n","_","s","c","h","e","m","a">>,
    <<"s","c","h","e","m","a">>, <<"u","n","s","u","p","p","o","r","t","e","d">>,
    <<"a","b","o","r","t","e","d">> }

\* The alternatives of /response_format|json_schema|schema|unsupported/i
StructuredErrorPatterns ==
  { <<"r","e","s","p","o","n","s","e","_","f","o","r","m","a","t">>, <<"j","s","o","n","_","s","c","h","e","m","a">>,
    <<"s","c","h","e","m","a">>, <<"u","n","s","u","p","p","o","r","t","e","d">> }

\* Mutant: every failure of the first call looks like a schema rejection.
isStructuredOutputError_Any(message) == TRUE

\* isStructuredOutputError: the regular expression is tested on the
\* message, letters compared without regard to case
isStructuredOutputError(message) ==
  \E pattern \in StructuredErrorPatterns :
    IndexOf(ToLower(MessageChars(message)), pattern, 0) >= 0

(***************************************************************************)
(* Inputs of the chat handler                                              *)
(***************************************************************************)
EnvConfigs ==
  { [topK |-> 8, structuredPreferred |-> TRUE, maxHistoryMessages |-> 12],
    [topK |-> 2, structuredPreferred |-> FALSE, maxHistoryMessages |-> 1] }

UserMsg(chars) == [role |-> "user", content |-> chars, citations |-> <<>>]
AssistantMsg(chars, cites) == [role |-> "assistant", content |-> chars, citations |-> cites]

RequestMessages ==
  { <<UserMsg(<<" ", "q", "1">>)>>,
    <<UserMsg(<<"q", "1">>),
      AssistantMsg(<<"a", "1">>, <<[doc_id |-> "rule6.pdf", page |-> "4",
                                    para_start |-> "2"]>>),
      UserMsg(<<"q", "2", " ">>),
      AssistantMsg(<<"a", "2">>, <<>>)>>,
    <<AssistantMsg(<<"a", "1">>, <<>>), UserMsg(<<" ">>)>>,
    <<>>,
    <<UserMsg(<<>>),
      AssistantMsg(<<"a", "1">>, <<[doc_id |-> "rule6.pdf", page |-> "4",
                                    para_start |-> "2"]>>)>>,
    <<[role |-> "system", content |-> <<"q", "1">>, citations |-> <<>>]>> }

Requests ==
  [messages : RequestMessages,
   retrievalMode : {"dense", "sparse", "hybrid"},
   stream : BOOLEAN]

\* What the dense and the sparse search may return for the question.
DenseResults ==
  { <<>>, <<DenseHit("a"), DenseHit("b"), DenseHit("c")>>, <<DenseHit("a")>> }
SparseResults ==
  { <<>>, <<SparseHit("b"), SparseHit("d"), SparseHit("a")>>, <<SparseHit("d")>> }

\* What the model may answer.
AnswerValues ==
  { JsString(<<"o", "k", " ", "E200", "c", "i", "t", "e", "E202", "a", "E201">>),
    JsString(<<"E200", "c", "i", "t", "e", "E202", "a", "E201">>),
    JsString(<<"H", "i", ".">>),
    JsUndefined }

ModelClaimItems ==
  { JsString("a"), JsString("c"), JsString("d"), JsString("zz"),
    JsObject(JsString("b")) }

ModelClaimedLists ==
  { [isArray |-> TRUE, items |-> l] :
      l \in UNION { [1..m -> ModelClaimItems] : m \in 0..MaxModelCitations } }
  \cup { [isArray |-> FALSE, items |-> <<>>] }

ModelOutputs ==
  { [form |-> "json", value |-> [answer |-> a, citations |-> c]] :
      a \in AnswerValues, c \in ModelClaimedLists }
  \cup { [form |-> "wrapped",
           value |-> [answer |-> JsString(<<"H", "i", ".">>),
                      citations |-> [isArray |-> TRUE, items |-> <<JsString("a")>>]]] }
  \cup { [form |-> "garbage", value |-> <<>>] }

\* What the model may stream: three JSON texts of the schema.
StreamOutputs ==
  { [form |-> "json", value |-> [answer |-> a, citations |-> c]] :
      a \in { JsString(<<"o", "k", " ", "E200", "c", "i", "t", "e", "E202", "a", "E201">>),
              JsString(<<"H", "i", ".">>) },
      c \in { [isArray |-> TRUE, items |-> <<JsString("a")>>] } }
  \cup { [form |-> "json",
           value |-> [answer |-> JsUndefined,
                      citations |-> [isArray |-> TRUE, items |-> <<JsString("zz")>>]]] }

RECURSIVE EscapedText(_)
\* the characters of a string as a JSON text writes them
EscapedText(chars) ==
  IF chars = <<>> THEN <<>>
  ELSE (IF Head(chars) \in {QUOTE, BACKSLASH} THEN <<BACKSLASH, Head(chars)>>
        ELSE <<Head(chars)>>) \o EscapedText(Tail(chars))

RECURSIVE CitationItemsText(_)
\* the items of a citations array as a JSON text writes them; an id is one
\* character of the text
CitationItemsText(items) ==
  IF items = <<>> THEN <<>>
  ELSE <<QUOTE, Head(items).value, QUOTE>>
       \o (IF Tail(items) = <<>> THEN <<>> ELSE <<",">>)
       \o CitationItemsText(Tail(items))

\* the JSON text of an output of the schema
JsonText(output) ==
  <<"{">>
  \o (IF output.value.answer.type = "string"
      THEN <<QUOTE>> \o AnswerKeyName \o <<QUOTE, ":", QUOTE>>
           \o EscapedText(output.value.answer.value) \o <<QUOTE, ",">>
      ELSE <<>>)
  \o <<QUOTE, "c", "i", "t", "a", "t", "i", "o", "n", "s", QUOTE, ":", "[">>
  \o CitationItemsText(output.value.citations.items)
  \o <<"]", "}">>

\* The texts the completion service may stream: the JSON texts, and one
\* that stops before the closing bracket and brace.
StreamTexts ==
  { JsonText(output) : output \in StreamOutputs }
  \cup { SubSeq(JsonText(output), 1, Len(JsonText(output)) - 2) :
           output \in { o \in StreamOutputs :
                          o.value.answer = JsString(<<"H", "i", ".">>) } }

\* The streamed text as callOpenRouterStream returns it (fullContent).
StreamedOutput(text) ==
  IF \E output \in StreamOutputs : JsonText(output) = text
  THEN CHOOSE output \in StreamOutputs : JsonText(output) = text
  ELSE [form |-> "garbage", value |-> <<>>]

(***************************************************************************)
(* Steps of the chat handler                                               *)
(***************************************************************************)
\* One line of the prior-citations appendix of an assistant turn.
CitationLine(citation) ==
  LET paraStart == Coalesce(Field(citation, "para_start"), <<"?">>)
      paraEnd == Coalesce(Field(citation, "para_end"), paraStart)
  IN [doc  |-> Coalesce(Field(citation, "doc_id"), <<"Source">>),
      page |-> Coalesce(Field(citation, "page"), <<"?">>),
      para |-> IF paraStart = paraEnd THEN paraStart ELSE paraStart \o paraEnd]

\* The normalized form of one message: the trimmed content and, for an
\* assistant turn with citations, the appendix that lists them.
NormalizedMessage(msg) ==
  [role |-> msg.role,
   content |-> Trim(msg.content),
   appendix |-> IF msg.role = "assistant"
                THEN [i \in DOMAIN msg.citations |-> CitationLine(msg.citations[i])]
                ELSE <<>>]

normalizedMessages(rawMessages) ==
  LET HasRole(msg) == msg.role \in {"user", "assistant"}
      NonEmpty(msg) == msg.content # <<>> \/ msg.appendix # <<>>
      kept == SelectSeq(rawMessages, HasRole)
  IN SelectSeq([i \in DOMAIN kept |-> NormalizedMessage(kept[i])], NonEmpty)

\* Mutant: the last message of any role is taken.
lastUserIndex_AnyRole(normalized) == Len(normalized)

\* index of the last user message, 0 when there is none
lastUserIndex(normalized) ==
  LET users == { i \in DOMAIN normalized : normalized[i].role = "user" }
  IN IF users = {} THEN 0 ELSE CHOOSE i \in users : \A j \in users : j <= i

\* Mutant: the history runs through the latest user turn.
HistoryOf_ThroughLastUser(normalized, maxHistoryMessages) ==
  SubSeq(normalized, 1, lastUserIndex(normalized))

\* normalizedMessages.slice(0, lastUserIndex), cut to the last
\* maxHistoryMessages
HistoryOf(normalized, maxHistoryMessages) ==
  LET slice == SubSeq(normalized, 1, lastUserIndex(normalized) - 1)
  IN IF maxHistoryMessages > 0
     THEN Slice(slice, IF Len(slice) > maxHistoryMessages
                       THEN Len(slice) - maxHistoryMessages ELSE 0, Len(slice))
     ELSE <<>>

JsonResponse(status, body) == <<[status |-> status, body |-> body]>>

\* The request body is read and the question is taken from it.
ParseRequest ==
  /\ hpc = "start"
  /\ LET normalized == normalizedMessages(request.messages) IN
     IF lastUserIndex(normalized) = 0
     THEN /\ response' = JsonResponse(400, [error |-> "Missing user message"])
          /\ hpc' = "done"
          /\ UNCHANGED <<question, history>>
     ELSE IF Trim(normalized[lastUserIndex(normalized)].content) = <<>>
     THEN /\ response' = JsonResponse(400, [error |-> "Empty user message"])
          /\ hpc' = "done"
          /\ UNCHANGED <<question, history>>
     ELSE /\ question' = Trim(normalized[lastUserIndex(normalized)].content)
          /\ history' = HistoryOf(normalized, env.maxHistoryMessages)
          /\ hpc' = IF request.retrievalMode \in {"dense", "hybrid"}
                    THEN "dense" ELSE "sparse"
          /\ UNCHANGED response
  /\ UNCHANGED <<env, request, raw, denseMatches, sparseMatches, matches, calls,
                 events, streamClosed, chunkVars, fuseVars, citeVars, scanVars, batchVars,
                 elemVars, sseVars, clientVars, promptVars, lookupVars>>

\* embedQuery and queryPinecone return, or one of them throws.
DenseSearch ==
  /\ hpc = "dense"
  /\ \/ \E list \in DenseResults :
          /\ denseMatches' = list
          /\ matches' = list
          /\ hpc' = IF request.retrievalMode = "hybrid" THEN "sparse" ELSE "call"
          /\ UNCHANGED response
     \/ /\ response' = JsonResponse(500, [error |-> "Pinecone query error"])
        /\ hpc' = "done"
        /\ UNCHANGED <<denseMatches, matches>>
  /\ UNCHANGED <<env, request, raw, question, history, sparseMatches, calls, events,
                 streamClosed, chunkVars, fuseVars, citeVars, scanVars, batchVars,
                 elemVars, sseVars, clientVars, promptVars, lookupVars>>

\* searchPineconeSparse returns, or throws; in hybrid mode the two lists
\* are fused.
SparseSearch ==
  /\ hpc = "sparse"
  /\ \/ \E list \in SparseResults :
          /\ sparseMatches' = list
          /\ matches' = IF request.retrievalMode = "sparse" THEN list
                        ELSE fuseResults(matches, list, env.topK)
          /\ hpc' = "call"
          /\ UNCHANGED response
     \/ /\ response' = JsonResponse(500, [error |-> "Pinecone search error"])
        /\ hpc' = "done"
        /\ UNCHANGED <<sparseMatches, matches>>
  /\ UNCHANGED <<env, request, raw, question, history, denseMatches, calls, events,
                 streamClosed, chunkVars, fuseVars, citeVars, scanVars, batchVars,
                 elemVars, sseVars, clientVars, promptVars, lookupVars>>

\* sources.trim().length > 0 ? sources : "None provided.", the sources
\* given by the ids of their chunks
SourcesBlock(list) ==
  IF list = <<>> THEN <<"None provided.">> ELSE IdsOf(list)

\* payload.messages: the system prompt, the history, and the user message
\* made of the question and the sources block
PayloadMessages(q, list, hist) ==
  <<[role |-> "system", content |-> <<"system prompt">>, appendix |-> <<>>,
     sources |-> <<>>]>>
  \o [i \in DOMAIN hist |->
        [role |-> hist[i].role, content |-> hist[i].content,
         appendix |-> hist[i].appendix, sources |-> <<>>]]
  \o <<[role |-> "user", content |-> q, appendix |-> <<>>,
        sources |-> <<SourcesBlock(list)>>]>>

\* callOpenRouter / callOpenRouterStream sends the completion request: the
\* first attempt with the structured-output preference, the second without
\* the schema.
IssueCall ==
  /\ hpc = "call"
  /\ calls' = Append(calls, [useStructured |-> IF calls = <<>>
                                               THEN env.structuredPreferred
                                               ELSE FALSE,
                             question |-> question,
                             history |-> history,
                             matches |-> matches,
                             messages |-> PayloadMessages(question, matches, history),
                             error |-> <<>>,
                             aborted |-> FALSE])
  /\ hpc' = "inflight"
  /\ UNCHANGED <<env, request, raw, question, history, denseMatches, sparseMatches,
                 matches, response, events, streamClosed, chunkVars, fuseVars,
                 citeVars, scanVars, batchVars,
                 elemVars, sseVars, clientVars, promptVars, lookupVars>>

\* Mutant: every failure of the first call is taken for a schema rejection.
looksLikeFormatError_Always(message) == TRUE

\* looksLikeFormatError = structuredPreferred && isStructuredOutputError(message)
looksLikeFormatError(message) ==
  env.structuredPreferred /\ isStructuredOutputError(message)

\* The handler's reaction to a completion call that throws: the first
\* attempt is repeated without the schema when the error looks like a
\* schema rejection, every other error ends the request.
CallThrows(message, timedOut) ==
  /\ calls' = [calls EXCEPT ![Len(calls)].error = <<message>>,
                            ![Len(calls)].aborted = timedOut]
  /\ IF Len(calls) = 1 /\ looksLikeFormatError(message)
     THEN /\ hpc' = "call"
          /\ UNCHANGED <<response, events, streamClosed>>
     ELSE /\ hpc' = "done"
          /\ IF request.stream
             THEN /\ events' = Append(events, [type |-> "error", data |-> message])
                  /\ streamClosed' = TRUE
                  /\ UNCHANGED response
             ELSE /\ response' = JsonResponse(500, [error |-> message])
                  /\ UNCHANGED <<events, streamClosed>>

\* The completion service answers with an error status, or the connection
\* fails.
CallFails ==
  /\ hpc \in {"inflight", "streaming"}
  /\ \E message \in (IF hpc = "inflight" THEN SchemaLikeMessages \cup OtherMessages
                       ELSE ReadFailureMessages) :
       CallThrows(message, FALSE)
  /\ UNCHANGED <<env, request, raw, question, history, denseMatches, sparseMatches,
                 matches, chunkVars, fuseVars, citeVars, scanVars, batchVars,
                 elemVars, sseVars, clientVars, promptVars, lookupVars>>

\* The timer set before fetch fires before clearTimeout: controller.abort()
\* makes the pending fetch, res.text() or reader.read() throw.
TimeoutFires ==
  /\ hpc \in {"inflight", "streaming"}
  /\ \E message \in AbortMessages : CallThrows(message, TRUE)
  /\ UNCHANGED <<env, request, raw, question, history, denseMatches, sparseMatches,
                 matches, chunkVars, fuseVars, citeVars, scanVars, batchVars,
                 elemVars, sseVars, clientVars, promptVars, lookupVars>>

\* callOpenRouterStream got the response of the completion service: the
\* extractor is created and the body is read.
StreamStarts ==
  /\ hpc = "inflight"
  /\ request.stream
  /\ \E text \in StreamTexts : upstream' = text
  /\ extractor' = NewExtractor
  /\ fullContent' = <<>>
  /\ hpc' = "streaming"
  /\ UNCHANGED <<jsonDoc, pushed, splitInToken, stripper, cleaned, spc,
                 env, request, raw, question, history, denseMatches, sparseMatches,
                 matches, calls, response, events, streamClosed,
                 chunkVars, fuseVars, citeVars, batchVars,
                 elemVars, sseVars, clientVars, promptVars, lookupVars>>

\* sendToken: what the stripper returns for a non-empty chunk is sent as a
\* token event unless it is empty.
TokenEvents(chunk) ==
  IF chunk # <<>> /\ strip(stripper, chunk).out # <<>>
  THEN <<[type |-> "token", data |-> strip(stripper, chunk).out]>>
  ELSE <<>>

\* The lengths of the next delta of a streamed completion: a few
\* characters, or all that is left.
DeltaLengths(text) ==
  { n \in 1..Len(text) : n = MaxFragmentLen \/ n = Len(text) }

\* A delta of the streamed completion arrives: it is added to fullContent
\* and pushed into the extractor, and what the extractor returns goes
\* through the stripper to the client.
StreamDelta ==
  /\ hpc = "streaming"
  /\ upstream # <<>>
  /\ \E n \in DeltaLengths(upstream) :
       LET delta == SubSeq(upstream, 1, n)
           emitted == push(extractor, delta).emitted
       IN /\ fullContent' = fullContent \o delta
          /\ upstream' = SubSeq(upstream, n + 1, Len(upstream))
          /\ extractor' = push(extractor, delta).st
          /\ stripper' = strip(stripper, emitted).st
          /\ events' = events \o TokenEvents(emitted)
  /\ UNCHANGED <<jsonDoc, pushed, splitInToken, cleaned, spc,
                 env, request, raw, question, history, denseMatches, sparseMatches,
                 matches, calls, response, streamClosed, hpc,
                 chunkVars, fuseVars, citeVars, batchVars,
                 elemVars, sseVars, clientVars, promptVars, lookupVars>>

\* Mutant: the done event is sent and the response is left open.
StreamEnds_NoClose ==
  /\ hpc = "streaming"
  /\ upstream = <<>>
  /\ raw' = <<StreamedOutput(fullContent)>>
  /\ events' = Append(events, [type |-> "done",
                               data |-> AnswerPayload(StreamedOutput(fullContent))])
  /\ streamClosed' = FALSE
  /\ hpc' = "done"
  /\ UNCHANGED <<env, request, question, history, denseMatches, sparseMatches,
                 matches, calls, response, scanVars, chunkVars, fuseVars, citeVars,
                 batchVars,
                 elemVars, sseVars, clientVars, promptVars, lookupVars>>

\* The streamed completion ends: fullContent is parsed, the citations are
\* validated, the done event is sent and the response is closed.
StreamEnds ==
  /\ hpc = "streaming"
  /\ upstream = <<>>
  /\ raw' = <<StreamedOutput(fullContent)>>
  /\ events' = Append(events, [type |-> "done",
                               data |-> AnswerPayload(StreamedOutput(fullContent))])
  /\ streamClosed' = TRUE
  /\ hpc' = "done"
  /\ UNCHANGED <<env, request, question, history, denseMatches, sparseMatches,
                 matches, calls, response, scanVars, chunkVars, fuseVars, citeVars,
                 batchVars,
                 elemVars, sseVars, clientVars, promptVars, lookupVars>>

\* callOpenRouter returns the model's raw output: it is parsed, the
\* citations are validated and the answer is sent as the JSON body.
CallReturns ==
  /\ hpc = "inflight"
  /\ ~request.stream
  /\ \E output \in ModelOutputs :
       /\ raw' = <<output>>
       /\ response' = JsonResponse(200, AnswerPayload(output))
  /\ UNCHANGED <<events, streamClosed>>
  /\ hpc' = "done"
  /\ UNCHANGED <<env, request, question, history, denseMatches, sparseMatches,
                 matches, calls, chunkVars, fuseVars, citeVars, scanVars, batchVars,
                 elemVars, sseVars, clientVars, promptVars, lookupVars>>

InitChat ==
  /\ IdleLookup
  /\ IdlePrompt
  /\ IdleClient
  /\ IdleSse
  /\ IdleElem
  /\ IdleScan
  /\ IdleBatch
  /\ IdleChunk
  /\ IdleFuse
  /\ IdleCite
  /\ env \in EnvConfigs
  /\ request \in Requests
  /\ question = <<>>
  /\ history = <<>>
  /\ denseMatches = <<>>
  /\ sparseMatches = <<>>
  /\ matches = <<>>
  /\ calls = <<>>
  /\ raw = <<>>
  /\ response = <<>>
  /\ events = <<>>
  /\ streamClosed = FALSE
  /\ hpc = "start"

NextChat ==
  \/ ParseRequest
  \/ DenseSearch
  \/ SparseSearch
  \/ IssueCall
  \/ CallFails
  \/ TimeoutFires
  \/ CallReturns
  \/ StreamStarts
  \/ StreamDelta
  \/ StreamEnds

SpecChat == InitChat /\ [][NextChat]_vars

(***************************************************************************)
(* Claims about the chat handler                                           *)
(***************************************************************************)
\* the citations of the successful responses sent so far
SentCitations ==
  (IF response # <<>> /\ response[1].status = 200
   THEN {response[1].body.citations} ELSE {})
  \cup { events[i].data.citations : i \in { j \in DOMAIN events : events[j].type = "done" } }

\* C10: in every successful response (JSON body or done event) every
\* citation's chunk_id is the id of a match in the list handed to the model
\* for this request, which in hybrid mode is the fused list after the top-K
\* truncation.
C10_CitationsWereHandedToModel ==
  \A cites \in SentCitations :
    /\ calls # <<>>
    /\ \A i \in DOMAIN cites :
         /\ \A k \in DOMAIN calls : cites[i].chunk_id \in Range(IdsOf(calls[k].matches))
         /\ request.retrievalMode = "hybrid" =>
              cites[i].chunk_id \in
                Range(IdsOf(fuseResults(denseMatches, sparseMatches, env.topK)))

\* hybrid mode with a truncating top-K: the model cited an id that was
\* retrieved but truncated away and an id that was kept, and the kept id
\* alone was sent
C10_Witness ==
  /\ request.retrievalMode = "hybrid"
  /\ hpc = "done"
  /\ IdsOf(denseMatches) = <<"a", "b", "c">>
  /\ IdsOf(matches) = <<"b", "a">>
  /\ raw # <<>>
  /\ raw[1].form = "json"
  /\ raw[1].value.citations.items = <<JsString("c"), JsString("a")>>
  /\ Len(matches) < Cardinality(Range(IdsOf(denseMatches)) \cup Range(IdsOf(sparseMatches)))
  /\ \E cites \in SentCitations :
       /\ Len(cites) = 1
       /\ cites[1].chunk_id = "a"

RECURSIVE TokenText(_)
\* the data of the token events, concatenated
TokenText(evts) ==
  IF evts = <<>> THEN <<>>
  ELSE (IF Head(evts).type = "token" THEN Head(evts).data ELSE <<>>)
       \o TokenText(Tail(evts))

\* the {answer, citations} payloads of the successful responses sent so far
SentPayloads ==
  (IF response # <<>> /\ response[1].status = 200 THEN {response[1].body} ELSE {})
  \cup { events[i].data : i \in { j \in DOMAIN events : events[j].type = "done" } }

\* C13 as stated: when a streamed answer has ended with the done event, the
\* token events taken together are the decoded answer without its complete
\* marker spans, so no trailing character is missing from the token stream.
C13_TokensCarryWholeAnswer ==
  (/\ streamClosed
   /\ events[Len(events)].type = "done"
   /\ Len(calls) = 1
   /\ raw[1].form = "json"
   /\ raw[1].value.answer.type = "string")
  => TokenText(events) = RemoveMarkers(raw[1].value.answer.value)

\* C14: the events of a streaming response are token events followed, once
\* the completion call has ended, by exactly one done or error event; the
\* response is closed exactly when that event was sent, and on a closed
\* response no event is sent.
C14_StreamShape ==
  /\ [](/\ \A i \in 1..(Len(events) - 1) : events[i].type = "token"
        /\ \A i \in DOMAIN events : events[i].type \in {"token", "done", "error"}
        /\ streamClosed <=>
             (events # <<>> /\ events[Len(events)].type \in {"done", "error"})
        /\ (request.stream /\ calls # <<>> /\ hpc = "done") => streamClosed
        /\ ~request.stream => events = <<>>)
  /\ [][streamClosed => (streamClosed' /\ events' = events)]_vars

\* a streamed answer: a token event, then the done event, then closed
C14_Witness ==
  /\ streamClosed
  /\ Len(events) = 2
  /\ events[1].type = "token"
  /\ events[1].data = <<"o", "k", " ">>
  /\ events[2].type = "done"
  /\ events[2].data.answer.text = <<"o", "k">>

\* C15 as stated: an error reaches the client as an error payload with a
\* failure status and with nothing of an answer beside it; a streaming
\* response with an error event has no token event and no done event.
C15_ErrorsCarryNoAnswer ==
  /\ \A i \in DOMAIN events :
       events[i].type = "error" =>
         \A j \in DOMAIN events : events[j].type \notin {"token", "done"}
  /\ \A i \in DOMAIN response :
       "error" \in DOMAIN response[i].body =>
         /\ response[i].status >= 400
         /\ DOMAIN response[i].body = {"error"}

\* C16: a request makes at most two completion calls; a failed call is
\* followed by another call only if it was the first, was made with the
\* schema and failed with a message that names the schema or the response
\* format, and that second call is made without the schema; every other
\* failure ends the request with its message as the error.
C16_AtMostOneRetry ==
  /\ Len(calls) <= 2
  /\ Len(calls) = 2 => ~calls[2].useStructured
  /\ \A k \in DOMAIN calls :
       calls[k].error # <<>> =>
         IF k = 1 /\ calls[1].useStructured /\ calls[1].error[1] \in SchemaLikeMessages
         THEN (hpc = "call" /\ Len(calls) = 1) \/ Len(calls) = 2
         ELSE /\ k = Len(calls)
              /\ hpc = "done"
              /\ IF request.stream
                 THEN events[Len(events)] = [type |-> "error", data |-> calls[k].error[1]]
                 ELSE response = JsonResponse(500, [error |-> calls[k].error[1]])
  /\ \A k \in DOMAIN calls : k < Len(calls) => calls[k].error # <<>>

\* the first call, made with the schema, was rejected, the second call,
\* made without it, failed too, and its error ended the request
C16_Witness ==
  /\ Len(calls) = 2
  /\ calls[1].useStructured
  /\ calls[1].error # <<>>
  /\ calls[1].error[1] \in SchemaLikeMessages
  /\ calls[2].error = <<"OpenRouter error: 500 upstream failure">>
  /\ hpc = "done"
  /\ response = JsonResponse(500, [error |-> "OpenRouter error: 500 upstream failure"])

\* C37: in streaming mode, when the first call has failed and the call
\* without the schema is about to be made or awaits its response, no token
\* event has been sent and the stripper holds no text and is outside any
\* marker, so that all token events of the response come from the second
\* call.
C37_RetryTokensFromOneAttempt ==
  (request.stream /\ calls # <<>> /\ calls[1].error # <<>>
   /\ (hpc = "call" \/ (hpc = "inflight" /\ Len(calls) = 2))) =>
    /\ \A i \in DOMAIN events : events[i].type # "token"
    /\ stripper = NewStripper

\* the first call of a streaming request was rejected for its schema, the
\* second call has been made without it, and nothing has been sent yet
C37_Witness ==
  /\ request.stream
  /\ hpc = "inflight"
  /\ Len(calls) = 2
  /\ calls[1].useStructured /\ ~calls[2].useStructured
  /\ calls[1].error = <<"OpenRouter error: 400 Unsupported parameter">>
  /\ events = <<>>
  /\ stripper = NewStripper

\* C39: a request none of whose messages has the user role and a non-empty
\* content never gets past the reading of its body: no search is made and
\* no completion call, nothing is streamed, and the response is the 400
\* with "Missing user message".
C39_NoUserMessageRejected ==
  (hpc # "idle"
   /\ \A i \in DOMAIN request.messages :
        ~(request.messages[i].role = "user" /\ request.messages[i].content # <<>>)) =>
    /\ hpc \in {"start", "done"}
    /\ denseMatches = <<>> /\ sparseMatches = <<>> /\ matches = <<>>
    /\ calls = <<>> /\ events = <<>> /\ raw = <<>>
    /\ hpc = "done" => response = JsonResponse(400, [error |-> "Missing user message"])

\* the request whose only messages are a user message without content and
\* an assistant message with a citation has been answered with the 400
C39_Witness ==
  /\ hpc = "done"
  /\ Len(request.messages) = 2
  /\ request.messages[1] = UserMsg(<<>>)
  /\ request.messages[2].role = "assistant"
  /\ request.stream
  /\ response = JsonResponse(400, [error |-> "Missing user message"])
  /\ calls = <<>>

\* C21: a completion call that the timeout aborted is the last call of the
\* request, in either mode and also after tokens were streamed: the call
\* failed with the abort error, the request is over and that error is what
\* the caller gets, as the 500 response or as the event that ends the
\* stream.
C21_TimeoutEndsRequest ==
  \A k \in DOMAIN calls :
    calls[k].aborted =>
      /\ calls[k].error # <<>>
      /\ calls[k].error[1] \in AbortMessages
      /\ k = Len(calls)
      /\ hpc = "done"
      /\ IF request.stream
         THEN /\ streamClosed
              /\ events[Len(events)] = [type |-> "error", data |-> calls[k].error[1]]
              /\ \A i \in DOMAIN events : events[i].type # "done"
         ELSE response = JsonResponse(500, [error |-> calls[k].error[1]])

\* the first call, made with the schema, was aborted while its body was
\* being read, after a token had been sent
C21_Witness ==
  /\ Len(calls) = 1
  /\ calls[1].useStructured
  /\ calls[1].aborted
  /\ request.stream
  /\ \E i \in DOMAIN events : events[i].type = "token"

NothingRelevantMessage == "I could not find anything relevant in the provided sources."

\* C17 as stated: with zero matches no completion call is made, and the
\* request is answered with the fixed message and no citations.
C17_EmptyRetrievalShortCircuits ==
  /\ \A k \in DOMAIN calls : calls[k].matches # <<>>
  /\ \A payload \in SentPayloads :
       matches = <<>> =>
         payload = [answer |-> [text |-> <<NothingRelevantMessage>>], citations |-> <<>>]

C20_HistoryBeforeQuestion ==
  \A k \in DOMAIN calls :
    LET norm == normalizedMessages(request.messages)
        last == CHOOSE i \in DOMAIN norm :
                  /\ norm[i].role = "user"
                  /\ \A j \in DOMAIN norm : norm[j].role = "user" => j <= i
        msgs == calls[k].messages
        sent == Len(msgs) - 2
    IN /\ msgs[1].role = "system"
       /\ msgs[Len(msgs)].role = "user"
       /\ msgs[Len(msgs)].content = Trim(norm[last].content)
       /\ msgs[Len(msgs)].sources # <<>>
       /\ \A i \in 1..(Len(msgs) - 1) : msgs[i].sources = <<>>
       /\ sent <= last - 1
       /\ sent <= env.maxHistoryMessages
       /\ sent = last - 1 \/ sent = env.maxHistoryMessages
       /\ \A i \in 1..sent :
            /\ msgs[i + 1].role = norm[last - 1 - sent + i].role
            /\ msgs[i + 1].content = norm[last - 1 - sent + i].content
            /\ msgs[i + 1].appendix = norm[last - 1 - sent + i].appendix

\* a conversation of four messages whose last one is an assistant turn, with
\* a history limit of one: the call carries the assistant turn before the
\* latest question, with its citation appendix, and the question
C20_Witness ==
  /\ Len(request.messages) = 4
  /\ env.maxHistoryMessages = 1
  /\ calls # <<>>
  /\ Len(calls[1].messages) = 3
  /\ calls[1].messages[2].role = "assistant"
  /\ calls[1].messages[2].content = <<"a", "1">>
  /\ calls[1].messages[2].appendix # <<>>
  /\ calls[1].messages[3].content = <<"q", "2">>
  /\ calls[1].messages[3].sources # <<>>

(***************************************************************************)
(* The ingestion batch: run                                                *)
(***************************************************************************)
EMBED_BATCH == 32

\* The element files of the input directory: the chunk ids that
\* buildChunksForFile returns for a well-formed file; JSON.parse throws on
\* a malformed one.
ElementFiles ==
  { [name |-> "rule6.json", malformed |-> FALSE, chunkIds |-> <<"rule6-0", "rule6-1">>],
    [name |-> "rule7.json", malformed |-> FALSE, chunkIds |-> <<"rule7-0">>],
    [name |-> "act.json", malformed |-> FALSE, chunkIds |-> <<>>],
    [name |-> "broken.json", malformed |-> TRUE, chunkIds |-> <<>>] }

\* the listings of the input directory: no file name twice
FileLists ==
  { list \in UNION { [1..n -> ElementFiles] : n \in 0..MaxFiles } :
      \A i, j \in DOMAIN list : i # j => list[i] # list[j] }

\* run finds the files: without files it returns, otherwise the chunk file
\* is emptied.
StartRun ==
  /\ bpc = "start"
  /\ IF jsonFiles = <<>>
     THEN /\ bpc' = "ended"
          /\ exitCode' = <<0>>
          /\ UNCHANGED chunkFile
     ELSE /\ bpc' = "files"
          /\ chunkFile' = <<>>
          /\ UNCHANGED exitCode
  /\ UNCHANGED <<jsonFiles, fileIndex, allChunks, upserted, chunkVars, fuseVars,
                 citeVars, chatVars, scanVars,
                 elemVars, sseVars, clientVars, promptVars, lookupVars>>

\* One iteration of the loop over the files: buildChunksForFile returns the
\* chunks of the file, or JSON.parse throws, run rejects and the catch
\* handler ends the process with code 1.
BuildNextFile ==
  /\ bpc = "files"
  /\ fileIndex < Len(jsonFiles)
  /\ IF jsonFiles[fileIndex + 1].malformed
     THEN /\ bpc' = "ended"
          /\ exitCode' = <<1>>
          /\ UNCHANGED <<allChunks, fileIndex>>
     ELSE /\ allChunks' = allChunks \o jsonFiles[fileIndex + 1].chunkIds
          /\ fileIndex' = fileIndex + 1
          /\ UNCHANGED <<bpc, exitCode>>
  /\ UNCHANGED <<jsonFiles, chunkFile, upserted, chunkVars, fuseVars, citeVars,
                 chatVars, scanVars,
                 elemVars, sseVars, clientVars, promptVars, lookupVars>>

\* All files are chunked: every chunk is appended to the chunk file.
WriteChunks ==
  /\ bpc = "files"
  /\ fileIndex = Len(jsonFiles)
  /\ chunkFile' = chunkFile \o allChunks
  /\ bpc' = "upsert"
  /\ UNCHANGED <<jsonFiles, fileIndex, allChunks, upserted, exitCode, chunkVars,
                 fuseVars, citeVars, chatVars, scanVars,
                 elemVars, sseVars, clientVars, promptVars, lookupVars>>

\* The next batch of at most EMBED_BATCH chunks is embedded and upserted.
UpsertBatch ==
  /\ bpc = "upsert"
  /\ Len(upserted) < Len(allChunks)
  /\ upserted' = upserted \o Slice(allChunks, Len(upserted), Len(upserted) + EMBED_BATCH)
  /\ UNCHANGED <<jsonFiles, fileIndex, allChunks, chunkFile, exitCode, bpc, chunkVars,
                 fuseVars, citeVars, chatVars, scanVars,
                 elemVars, sseVars, clientVars, promptVars, lookupVars>>

\* Every batch is upserted: the ingestion is complete.
CompleteRun ==
  /\ bpc = "upsert"
  /\ Len(upserted) >= Len(allChunks)
  /\ bpc' = "ended"
  /\ exitCode' = <<0>>
  /\ UNCHANGED <<jsonFiles, fileIndex, allChunks, chunkFile, upserted, chunkVars,
                 fuseVars, citeVars, chatVars, scanVars,
                 elemVars, sseVars, clientVars, promptVars, lookupVars>>

InitBatch ==
  /\ IdleLookup
  /\ IdlePrompt
  /\ IdleClient
  /\ IdleSse
  /\ IdleElem
  /\ IdleChunk
  /\ IdleFuse
  /\ IdleCite
  /\ IdleChat
  /\ IdleScan
  /\ jsonFiles \in FileLists
  /\ fileIndex = 0
  /\ allChunks = <<>>
  /\ chunkFile \in {<<>>, <<"rule6-0">>}
  /\ upserted = <<>>
  /\ exitCode = <<>>
  /\ bpc = "start"

NextBatch == StartRun \/ BuildNextFile \/ WriteChunks \/ UpsertBatch \/ CompleteRun

SpecBatch == InitBatch /\ [][NextBatch]_vars

(***************************************************************************)
(* Claims about the ingestion batch                                        *)
(***************************************************************************)
\* C19 as stated: when the batch has ended, the chunks of every well-formed
\* file are in the chunk file and upserted, whether or not another file of
\* the batch was malformed.
C19_MalformedFileIsLocal ==
  bpc = "ended" =>
    \A i \in DOMAIN jsonFiles :
      ~jsonFiles[i].malformed =>
        /\ Range(jsonFiles[i].chunkIds) \subseteq Range(chunkFile)
        /\ Range(jsonFiles[i].chunkIds) \subseteq Range(upserted)

(***************************************************************************)
(* buildChunksForFile on the elements of a parsed file                     *)
(***************************************************************************)
isHeading(type) == type \in {"Title", "Header"}

RECURSIVE CollapseWhitespace(_)
\* .replace(/\s+/g, " ")
CollapseWhitespace(text) ==
  IF text = <<>> THEN <<>>
  ELSE IF Head(text) \in WhitespaceChars
  THEN IF Len(text) >= 2 /\ text[2] \in WhitespaceChars
       THEN CollapseWhitespace(Tail(text))
       ELSE <<" ">> \o CollapseWhitespace(Tail(text))
  ELSE <<Head(text)>> \o CollapseWhitespace(Tail(text))

normalizeText(text) == Trim(CollapseWhitespace(text))

\* text.trim().split(/\s+/).length, 0 for the empty text
WordsIn(text) ==
  IF text = <<>> THEN 0
  ELSE LET t == CollapseWhitespace(Trim(text))
       IN 1 + Cardinality({ i \in DOMAIN t : t[i] \in WhitespaceChars })

\* The normalized text of a content item, with its number of words.
ItemText(text) ==
  [body |-> normalizeText(text), words |-> WordsIn(normalizeText(text))]

\* /^Downloaded:/i
MatchesDownloaded(trimmed) ==
  StartsWith(ToLower(trimmed), <<"d","o","w","n","l","o","a","d","e","d",":">>)

RECURSIVE SkipWhitespace(_)
SkipWhitespace(text) ==
  IF text # <<>> /\ Head(text) \in WhitespaceChars
  THEN SkipWhitespace(Tail(text)) ELSE text

\* /^Â©\s*\d{4}/i; the two characters before the year are written "A_CIRC"
\* and "COPYRIGHT"
MatchesCopyright(trimmed) ==
  /\ StartsWith(trimmed, <<"A_CIRC", "COPYRIGHT">>)
  /\ LET rest == SkipWhitespace(SubSeq(trimmed, 3, Len(trimmed)))
     IN /\ Len(rest) >= 4
        /\ \A i \in 1..4 : rest[i] \in DigitChars

shouldSkipElement(element) ==
  \/ element.text = <<>>
  \/ element.type \in {"Footer", "PageBreak"}
  \/ Trim(element.text) = <<>>
  \/ MatchesDownloaded(Trim(element.text))
  \/ MatchesCopyright(Trim(element.text))

\* Mutant: headings are content.
isContentElement_KeepHeadings(element) == ~shouldSkipElement(element)

isContentElement(element) ==
  ~shouldSkipElement(element) /\ ~isHeading(element.type)

\* The kinds of element of a parsed file: type, text, page number (<<>>:
\* none) and parent_id (<<>>: none); an element_id is the position of the
\* element in the file, 9 is the id of no element.
ElementKinds ==
  { [type |-> "Title", text |-> <<" ","R","u","l","e","s"," "," ","6"," ">>,
     page_number |-> <<1>>, parent_id |-> <<>>],
    [type |-> "Header", text |-> <<"N","o","t","i","c","e">>,
     page_number |-> <<1>>, parent_id |-> <<1>>],
    [type |-> "Header", text |-> <<>>,
     page_number |-> <<1>>, parent_id |-> <<>>],
    [type |-> "NarrativeText", text |-> <<"a"," ","\n","b">>,
     page_number |-> <<1>>, parent_id |-> <<1>>],
    [type |-> "Table", text |-> <<"c">>,
     page_number |-> <<2>>, parent_id |-> <<2>>],
    [type |-> "NarrativeText",
     text |-> <<" ","D","o","w","n","L","O","A","D","E","D",":"," ","1">>,
     page_number |-> <<1>>, parent_id |-> <<>>],
    [type |-> "Footer", text |-> <<"p"," ","1">>,
     page_number |-> <<1>>, parent_id |-> <<>>],
    [type |-> "NarrativeText", text |-> <<" ","\t">>,
     page_number |-> <<1>>, parent_id |-> <<1>>],
    [type |-> "NarrativeText", text |-> <<"d">>,
     page_number |-> <<>>, parent_id |-> <<9>>],
    [type |-> "UncategorizedText",
     text |-> <<"A_CIRC","COPYRIGHT"," ","2","0","2","4">>,
     page_number |-> <<2>>, parent_id |-> <<>>] }

ElementPages == {0, 1, 2}

\* The element of kind `kind` at position pos of the file.
Element(kind, pos) ==
  [element_id |-> pos, type |-> kind.type, text |-> kind.text,
   page_number |-> kind.page_number, parent_id |-> kind.parent_id]

\* The element files of at most MaxElements elements.
ElementLists ==
  UNION { { [i \in 1..n |-> Element(kinds[i], i)] : kinds \in [1..n -> ElementKinds] } :
          n \in 1..MaxElements }

RECURSIVE IndexById(_, _)
\* for (const el of elements) elementsById.set(el.element_id, el)
IndexById(els, map) ==
  IF els = <<>> THEN map
  ELSE IndexById(Tail(els), MapSet(map, Head(els).element_id, Head(els)))

\* elements.find(el => el.type === "Title" && el.text.trim()), <<>> if none
titleEl(els) ==
  LET titled == { i \in DOMAIN els :
                    els[i].type = "Title" /\ Trim(els[i].text) # <<>> }
  IN IF titled = {} THEN <<>>
     ELSE <<els[CHOOSE i \in titled : \A j \in titled : i <= j]>>

\* docTitle, <<>> for null
docTitle(els) ==
  IF titleEl(els) = <<>> THEN <<>> ELSE normalizeText(titleEl(els)[1].text)

\* el.metadata?.page_number ?? 0
PageOf(element) ==
  IF element.page_number = <<>> THEN 0 ELSE element.page_number[1]

\* Mutant: the paragraphs are numbered through the document.
NextParaCount_Global(paraCount, page) == Len(contentItems) + 1

\* nextCount
NextParaCount(paraCount, page) == paraCount[page] + 1

RECURSIVE JoinChars(_, _)
\* Array.prototype.join on strings
JoinChars(parts, sep) ==
  IF parts = <<>> THEN <<>>
  ELSE IF Len(parts) = 1 THEN parts[1]
  ELSE parts[1] \o sep \o JoinChars(Tail(parts), sep)

\* What getSectionPath returns after its loop.
SectionPathOf(parts, title) ==
  IF parts = <<>> /\ title # <<>> THEN title
  ELSE IF JoinChars(parts, <<" ", ">", " ">>) # <<>>
  THEN JoinChars(parts, <<" ", ">", " ">>)
  ELSE title

\* The loop of getSectionPath goes on: the cursor has a parent_id and
\* elementsById has an element for it.
WalkContinues ==
  /\ cursor # <<>>
  /\ cursor[1].parent_id # <<>>
  /\ MapHas(elementsById, cursor[1].parent_id[1])

\* Mutant: the cursor stays where it is.
NextCursor_Stay(parent) == cursor

\* cursor = parent
NextCursor(parent) == <<parent>>

\* The elements are indexed by id and the document title is looked up.
IndexElements ==
  /\ epc = "start"
  /\ elementsById' = IndexById(elements, <<>>)
  /\ header' = [header EXCEPT !.docTitle = docTitle(elements)]
  /\ epc' = "elements"
  /\ UNCHANGED <<inputDoc, run, contentItems, pageParaCount, chunks, current,
                 chunkIndex, pc, prevChunks, elements, elemIndex, cursor, pathParts,
                 visited, itemIndex, fuseVars, citeVars, chatVars, scanVars,
                 batchVars, sseVars, clientVars, promptVars, lookupVars>>

\* First loop: the next element is no content element.
SkipElement ==
  /\ epc = "elements"
  /\ elemIndex < Len(elements)
  /\ ~isContentElement(elements[elemIndex + 1])
  /\ elemIndex' = elemIndex + 1
  /\ UNCHANGED <<chunkVars, elements, elementsById, cursor, pathParts, visited,
                 itemIndex, epc, fuseVars, citeVars, chatVars, scanVars, batchVars, sseVars, clientVars, promptVars, lookupVars>>

\* First loop: the next element is a content element; its paragraph is
\* counted and getSectionPath is entered.
EnterSectionPath ==
  /\ epc = "elements"
  /\ elemIndex < Len(elements)
  /\ isContentElement(elements[elemIndex + 1])
  /\ LET el == elements[elemIndex + 1]
     IN /\ pageParaCount' = [pageParaCount EXCEPT
                               ![PageOf(el)] = NextParaCount(pageParaCount, PageOf(el))]
        /\ cursor' = <<el>>
        /\ visited' = <<el.element_id>>
  /\ pathParts' = <<>>
  /\ epc' = "walk"
  /\ UNCHANGED <<header, inputDoc, run, contentItems, chunks, current, chunkIndex,
                 pc, prevChunks, elements, elementsById, elemIndex, itemIndex,
                 fuseVars, citeVars, chatVars, scanVars, batchVars, sseVars, clientVars, promptVars, lookupVars>>

\* One iteration of the loop of getSectionPath: the cursor moves to the
\* parent, whose text is put in front of the path if it is a heading with
\* text.  Followed as long as the walk has been at no more than MaxElements
\* elements.
WalkStep ==
  /\ epc = "walk"
  /\ WalkContinues
  /\ Len(visited) <= MaxElements
  /\ LET parent == MapGet(elementsById, cursor[1].parent_id[1])
     IN /\ pathParts' = IF isHeading(parent.type) /\ parent.text # <<>>
                        THEN <<normalizeText(parent.text)>> \o pathParts
                        ELSE pathParts
        /\ cursor' = NextCursor(parent)
        /\ visited' = Append(visited, cursor'[1].element_id)
  /\ UNCHANGED <<chunkVars, elements, elementsById, elemIndex, itemIndex, epc,
                 fuseVars, citeVars, chatVars, scanVars, batchVars, sseVars, clientVars, promptVars, lookupVars>>

\* getSectionPath returns and the content item is pushed.
PushItem ==
  /\ epc = "walk"
  /\ ~WalkContinues
  /\ LET el == elements[elemIndex + 1]
     IN contentItems' = Append(contentItems,
          [element_id   |-> el.element_id,
           type         |-> el.type,
           text         |-> ItemText(el.text),
           page_number  |-> PageOf(el),
           para_index   |-> pageParaCount[PageOf(el)],
           parent_id    |-> el.parent_id,
           section_path |-> SectionPathOf(pathParts, header.docTitle),
           content_type |-> IF el.type = "Table" THEN "table" ELSE "text",
           doc_id       |-> header.filename])
  /\ elemIndex' = elemIndex + 1
  /\ cursor' = <<>>
  /\ epc' = "elements"
  /\ UNCHANGED <<header, inputDoc, run, pageParaCount, chunks, current, chunkIndex,
                 pc, prevChunks, elements, elementsById, pathParts, visited,
                 itemIndex, fuseVars, citeVars, chatVars, scanVars, batchVars, sseVars, clientVars, promptVars, lookupVars>>

\* Second loop: the next content item is merged or opens a chunk.
ChunkItem ==
  /\ epc = "elements"
  /\ elemIndex = Len(elements)
  /\ itemIndex < Len(contentItems)
  /\ Accumulate(contentItems[itemIndex + 1])
  /\ itemIndex' = itemIndex + 1
  /\ UNCHANGED <<header, inputDoc, run, contentItems, pageParaCount, pc, prevChunks,
                 elements, elementsById, elemIndex, cursor, pathParts, visited, epc,
                 fuseVars, citeVars, chatVars, scanVars, batchVars, sseVars, clientVars, promptVars, lookupVars>>

\* The last accumulator is flushed and the chunks are returned.
ReturnChunks ==
  /\ epc = "elements"
  /\ elemIndex = Len(elements)
  /\ itemIndex = Len(contentItems)
  /\ chunks' = ChunksAfterFlush
  /\ chunkIndex' = IndexAfterFlush
  /\ current' = <<>>
  /\ epc' = "done"
  /\ UNCHANGED <<header, inputDoc, run, contentItems, pageParaCount, pc, prevChunks,
                 elements, elementsById, elemIndex, cursor, pathParts, visited,
                 itemIndex, fuseVars, citeVars, chatVars, scanVars, batchVars, sseVars, clientVars, promptVars, lookupVars>>

InitElements ==
  /\ IdleLookup
  /\ IdlePrompt
  /\ IdleClient
  /\ IdleSse
  /\ IdleScan
  /\ IdleBatch
  /\ IdleFuse
  /\ IdleCite
  /\ IdleChat
  /\ \E h \in DocHeaders : header = [h EXCEPT !.docTitle = <<>>]
  /\ inputDoc = <<>>
  /\ run = 1
  /\ prevChunks = <<>>
  /\ contentItems = <<>>
  /\ pageParaCount = [p \in ElementPages |-> 0]
  /\ chunks = <<>>
  /\ current = <<>>
  /\ chunkIndex = 0
  /\ pc = "idle"
  /\ elements \in ElementLists
  /\ elementsById = <<>>
  /\ elemIndex = 0
  /\ cursor = <<>>
  /\ pathParts = <<>>
  /\ visited = <<>>
  /\ itemIndex = 0
  /\ epc = "start"

NextElements ==
  \/ IndexElements
  \/ SkipElement
  \/ EnterSectionPath
  \/ WalkStep
  \/ PushItem
  \/ ChunkItem
  \/ ReturnChunks

SpecElements == InitElements /\ [][NextElements]_vars

(***************************************************************************)
(* Claims about the elements of a file                                     *)
(***************************************************************************)
\* C26: the para_index of a content item is one more than the number of
\* earlier content items with its page number, and the items are in the
\* order of their elements.
C26_ParaIndexPerPage ==
  \A i \in DOMAIN contentItems :
    /\ contentItems[i].page_number = PageOf(elements[contentItems[i].element_id])
    /\ contentItems[i].para_index =
         1 + Cardinality({ j \in 1..(i - 1) :
                             contentItems[j].page_number = contentItems[i].page_number })
    /\ \A j \in 1..(i - 1) : contentItems[j].element_id < contentItems[i].element_id

\* a page has its second paragraph after the first paragraph of another page
C26_Witness ==
  \E i, j, k \in DOMAIN contentItems :
    /\ i < j /\ j < k
    /\ contentItems[i].page_number = contentItems[k].page_number
    /\ contentItems[j].page_number # contentItems[i].page_number
    /\ contentItems[j].para_index = 1
    /\ contentItems[k].para_index = 2

\* C27: every element of a chunk or of the open accumulator has text that
\* is not only whitespace and does not start with "Downloaded:", and is no
\* Footer, PageBreak, Title or Header; the headings are in elementsById,
\* and the text of a parent that is a heading ends the section path of its
\* content item.
C27_OnlyContentInChunks ==
  /\ \A g \in DOMAIN Groups :
       \A id \in Range(Groups[g].element_ids) :
         /\ Trim(elements[id].text) # <<>>
         /\ elements[id].type \notin {"Footer", "PageBreak", "Title", "Header"}
         /\ ~MatchesDownloaded(Trim(elements[id].text))
  /\ epc \notin {"idle", "start"} =>
       \A i \in DOMAIN elements :
         isHeading(elements[i].type) =>
           /\ MapHas(elementsById, i)
           /\ MapGet(elementsById, i) = elements[i]
  /\ \A i \in DOMAIN contentItems :
       LET el == elements[contentItems[i].element_id]
       IN (/\ el.parent_id # <<>>
           /\ el.parent_id[1] \in DOMAIN elements
           /\ isHeading(elements[el.parent_id[1]].type)
           /\ elements[el.parent_id[1]].text # <<>>) =>
            LET part == normalizeText(elements[el.parent_id[1]].text)
                path == contentItems[i].section_path
            IN /\ Len(path) >= Len(part)
               /\ SubSeq(path, Len(path) - Len(part) + 1, Len(path)) = part

\* the builder returned a chunk for a file with a heading, a paragraph under
\* it and an element that is skipped
C27_Witness ==
  /\ epc = "done"
  /\ Len(chunks) >= 1
  /\ \E i, j \in DOMAIN elements :
       /\ isHeading(elements[i].type)
       /\ shouldSkipElement(elements[j])
       /\ ~isHeading(elements[j].type)
  /\ \E k \in DOMAIN chunks :
       chunks[k].section_path = <<"R","u","l","e","s"," ","6">>

\* C28 as stated: the walk of getSectionPath is at no element twice.
C28_WalkVisitsOnce ==
  \A i, j \in DOMAIN visited : i # j => visited[i] # visited[j]

RECURSIVE Reaches(_, _, _)
\* The element with id `target` is reached from el over at least one and at
\* most `fuel` parent links.
Reaches(el, target, fuel) ==
  /\ fuel > 0
  /\ el.parent_id # <<>>
  /\ el.parent_id[1] \in DOMAIN elements
  /\ \/ el.parent_id[1] = target
     \/ Reaches(elements[el.parent_id[1]], target, fuel - 1)

\* The parent links of the file form a forest: no element is its own
\* ancestor.
ParentLinksAcyclic ==
  \A i \in DOMAIN elements : ~Reaches(elements[i], i, Len(elements))

\* C28: in a file whose parent links form a forest the walk of
\* getSectionPath is at no element twice, so it is over after at most as
\* many elements as the file has, and it ends at an element without
\* parent_id or with a parent_id that no element has.
C28_ForestWalkVisitsOnce ==
  ParentLinksAcyclic =>
    /\ \A i, j \in DOMAIN visited : i # j => visited[i] # visited[j]
    /\ Len(visited) <= Len(elements)
    /\ (epc = "walk" /\ ~WalkContinues) =>
         \/ cursor[1].parent_id = <<>>
         \/ cursor[1].parent_id[1] \notin DOMAIN elements

\* the walk went from a table over a header to the title and ended there
C28_Witness ==
  /\ ParentLinksAcyclic
  /\ epc = "walk"
  /\ ~WalkContinues
  /\ Len(visited) = 3
  /\ Len(pathParts) = 2
  /\ cursor[1].parent_id = <<>>

RECURSIVE HasHeadingAncestor(_, _)
\* An element reached from el over at most `fuel` parent links is a
\* heading with text.
HasHeadingAncestor(el, fuel) ==
  /\ fuel > 0
  /\ el.parent_id # <<>>
  /\ el.parent_id[1] \in DOMAIN elements
  /\ LET parent == elements[el.parent_id[1]]
     IN \/ isHeading(parent.type) /\ parent.text # <<>>
        \/ HasHeadingAncestor(parent, fuel - 1)

\* C29 as stated: the section path of a content item without a heading
\* ancestor that has text is the document title: the normalized text of
\* the first Title element with text, or else the file name, which is what
\* the chunk of the item gets as doc_title.
C29_SectionPathFallsBack ==
  \A i \in DOMAIN contentItems :
    ~HasHeadingAncestor(elements[contentItems[i].element_id], Len(elements)) =>
      contentItems[i].section_path = NewAccumulator(contentItems[i], header).doc_title

(***************************************************************************)
(* callOpenRouterStream: reading the event stream                          *)
(***************************************************************************)
\* The answer text whose fragments the content lines carry, one fragment per
\* content line: the fragments end inside the answer string and inside the
\* start token of a marker.
SseFragments ==
  << <<"{", QUOTE, "a", "n", "s", "w", "e", "r", QUOTE, ":", QUOTE, "x", "E200">>,
     <<"c", "i", "t", "e", "E202", "r">>,
     <<"E201", "s", "o", "u", "r", "c", "e", "s", ".", QUOTE>>,
     <<",", QUOTE, "c", "i", "t", "a", "t", "i", "o", "n", "s", QUOTE, ":", "[", "]", "}">> >>

\* the i-th fragment; white space follows the text
Fragment(i) == IF i <= Len(SseFragments) THEN SseFragments[i] ELSE <<" ">>

\* The kinds of line in the stream: a data line with a content fragment, a
\* data line whose delta has an empty content, a data line whose delta has
\* no content, a comment line, a data line that is not JSON, and the
\* sentinel.
LineKinds == {"content", "empty", "role", "comment", "notjson", "done"}

\* A line of the given kind; a content line carries fragment i.  dataField
\* is line.startsWith("data:"), data what follows the colon, json whether
\* JSON.parse accepts it, delta the value of choices[0].delta.content
\* (<<>> when there is none).
LineOf(kind, i) ==
  CASE kind = "content" -> [dataField |-> TRUE, data |-> "object", json |-> TRUE,
                            delta |-> <<Fragment(i)>>]
    [] kind = "empty"   -> [dataField |-> TRUE, data |-> "object", json |-> TRUE,
                            delta |-> << <<>> >>]
    [] kind = "role"    -> [dataField |-> TRUE, data |-> "object", json |-> TRUE,
                            delta |-> <<>>]
    [] kind = "comment" -> [dataField |-> FALSE, data |-> "", json |-> FALSE,
                            delta |-> <<>>]
    [] kind = "notjson" -> [dataField |-> TRUE, data |-> "{", json |-> FALSE,
                            delta |-> <<>>]
    [] kind = "done"    -> [dataField |-> TRUE, data |-> "[DONE]", json |-> FALSE,
                            delta |-> <<>>]

RECURSIVE LinesOf(_, _)
\* the lines of a stream with the given kinds, i being the number of the
\* next fragment
LinesOf(kinds, i) ==
  IF kinds = <<>> THEN <<>>
  ELSE <<LineOf(Head(kinds), i)>>
       \o LinesOf(Tail(kinds), IF Head(kinds) = "content" THEN i + 1 ELSE i)

EventStreams ==
  { LinesOf(kinds, 1) : kinds \in UNION { [1..n -> LineKinds] : n \in 0..MaxLines } }

RECURSIVE OnTheWire(_)
\* A line travels in two parts, the second of which ends with the line
\* break.
OnTheWire(lines) ==
  IF lines = <<>> THEN <<>>
  ELSE << [line |-> Head(lines), lineBreak |-> FALSE],
          [line |-> Head(lines), lineBreak |-> TRUE] >> \o OnTheWire(Tail(lines))

\* buffer.indexOf("\n"), 0-based, -1 when there is none
LineBreakIndex(buffer) ==
  LET hits == { k \in 1..Len(buffer) : buffer[k].lineBreak }
  IN IF hits = {} THEN -1 ELSE (CHOOSE k \in hits : \A j \in hits : k <= j) - 1

\* sendToken(chunk) of the streaming handler: the chunk goes through the
\* citation stripper and what comes out is sent as a token event.
sendToken(st, chunk) ==
  IF chunk = <<>> THEN st
  ELSE LET result == strip(st.stripper, chunk)
       IN [st EXCEPT !.stripper = result.st,
                     !.stripperIn = Append(@, chunk),
                     !.cleaned = @ \o result.out]

\* A non-empty delta: it is appended to fullContent and pushed into the
\* extractor, and what the extractor returns is handed to onAnswerChunk.
OnDelta(st, delta) ==
  LET result == push(st.extractor, delta)
      next == [st EXCEPT !.fullContent = @ \o delta,
                         !.extractor = result.st,
                         !.extractorIn = Append(@, delta),
                         !.pushed = @ \o result.emitted]
  IN IF result.emitted # <<>> THEN sendToken(next, result.emitted) ELSE next

\* the sentinel is never recognised
IsDoneSentinel_Never(data) == FALSE

\* data === "[DONE]"
IsDoneSentinel(data) == data = "[DONE]"

RECURSIVE DrainBuffer(_, _)
\* The inner loop: every complete line of the buffer is taken out and
\* handled until the sentinel is met or no line break is left.
DrainBuffer(buffer, st) ==
  IF LineBreakIndex(buffer) = -1 THEN [buffer |-> buffer, st |-> st]
  ELSE LET line == buffer[LineBreakIndex(buffer) + 1].line
           rest == SubSeq(buffer, LineBreakIndex(buffer) + 2, Len(buffer))
       IN IF ~line.dataField \/ line.data = "" THEN DrainBuffer(rest, st)
          ELSE IF IsDoneSentinel(line.data)
            THEN [buffer |-> rest, st |-> [st EXCEPT !.done = TRUE]]
          ELSE IF ~line.json THEN DrainBuffer(rest, st)
          ELSE IF line.delta # <<>> /\ line.delta[1] # <<>>
            THEN DrainBuffer(rest, OnDelta(st, line.delta[1]))
          ELSE DrainBuffer(rest, st)

\* reader.read() delivers the next parts of the stream and the inner loop
\* handles the lines they complete.
ReadChunk ==
  /\ spc = "read"
  /\ wire # <<>>
  /\ \E n \in 1..MaxReadParts :
       /\ n <= Len(wire)
       /\ LET result == DrainBuffer(netBuffer \o SubSeq(wire, 1, n),
                          [fullContent |-> fullContent, extractor |-> extractor,
                           stripper |-> stripper, pushed |-> pushed,
                           cleaned |-> cleaned, extractorIn |-> extractorIn,
                           stripperIn |-> stripperIn, done |-> FALSE])
          IN /\ netBuffer' = result.buffer
             /\ fullContent' = result.st.fullContent
             /\ extractor' = result.st.extractor
             /\ stripper' = result.st.stripper
             /\ pushed' = result.st.pushed
             /\ cleaned' = result.st.cleaned
             /\ extractorIn' = result.st.extractorIn
             /\ stripperIn' = result.st.stripperIn
             /\ spc' = IF result.st.done THEN "sawDone" ELSE "read"
       /\ wire' = SubSeq(wire, n + 1, Len(wire))
  /\ UNCHANGED <<jsonDoc, upstream, splitInToken, returned, chunkVars, fuseVars,
                 citeVars, chatVars, batchVars, elemVars, clientVars, promptVars, lookupVars>>

\* The loop has ended, at the sentinel or because the reader is done, and
\* fullContent is returned.
StreamReturns ==
  /\ \/ spc = "sawDone"
     \/ spc = "read" /\ wire = <<>>
  /\ returned' = <<fullContent>>
  /\ spc' = "returned"
  /\ UNCHANGED <<jsonDoc, upstream, fullContent, extractor, pushed, splitInToken,
                 stripper, cleaned, wire, netBuffer, extractorIn, stripperIn,
                 chunkVars, fuseVars, citeVars, chatVars, batchVars, elemVars, clientVars, promptVars, lookupVars>>

InitSse ==
  /\ IdleLookup
  /\ IdlePrompt
  /\ IdleClient
  /\ IdleElem
  /\ IdleChunk
  /\ IdleFuse
  /\ IdleCite
  /\ IdleChat
  /\ IdleBatch
  /\ jsonDoc \in { <<lines>> : lines \in EventStreams }
  /\ wire = OnTheWire(jsonDoc[1])
  /\ netBuffer = <<>>
  /\ upstream = <<>>
  /\ fullContent = <<>>
  /\ extractor = NewExtractor
  /\ pushed = <<>>
  /\ splitInToken = FALSE
  /\ stripper = NewStripper
  /\ cleaned = <<>>
  /\ extractorIn = <<>>
  /\ stripperIn = <<>>
  /\ returned = <<>>
  /\ spc = "read"

NextSse == ReadChunk \/ StreamReturns

SpecSse == InitSse /\ [][NextSse]_vars

(***************************************************************************)
(* Claims about the event stream                                           *)
(***************************************************************************)
RECURSIVE FragmentsBeforeDone(_)
\* the non-empty content fragments of the lines before the first sentinel
FragmentsBeforeDone(lines) ==
  IF lines = <<>> \/ (Head(lines).dataField /\ Head(lines).data = "[DONE]") THEN <<>>
  ELSE (IF Head(lines).json /\ Head(lines).delta # <<>> /\ Head(lines).delta[1] # <<>>
        THEN <<Head(lines).delta[1]>> ELSE <<>>)
       \o FragmentsBeforeDone(Tail(lines))

\* the lines that have arrived with their line break
LinesReceived ==
  SubSeq(jsonDoc[1], 1, (2 * Len(jsonDoc[1]) - Len(wire)) \div 2)

RECURSIVE ConcatAll(_)
ConcatAll(strings) ==
  IF strings = <<>> THEN <<>> ELSE Head(strings) \o ConcatAll(Tail(strings))

RECURSIVE ExtractedFrom(_, _)
\* what the extractor returns, call by call, for a sequence of fragments,
\* leaving out the empty returns
ExtractedFrom(st, fragments) ==
  IF fragments = <<>> THEN <<>>
  ELSE LET result == push(st, Head(fragments))
       IN (IF result.emitted = <<>> THEN <<>> ELSE <<result.emitted>>)
          \o ExtractedFrom(result.st, Tail(fragments))

RECURSIVE StrippedFrom(_, _)
\* what the stripper returns in all for a sequence of chunks
StrippedFrom(st, pieces) ==
  IF pieces = <<>> THEN <<>>
  ELSE LET result == strip(st, Head(pieces))
       IN result.out \o StrippedFrom(result.st, Tail(pieces))

\* C34: the fragments pushed into the extractor are exactly the non-empty
\* content fragments of the lines received before the sentinel, each once and
\* in arrival order; the raw text is their concatenation; the stripper was
\* passed exactly what the extractor returned for them, in that order, and
\* the token text is what it made of that; lines after the sentinel add
\* nothing, and the text returned is the concatenation of the pushed
\* fragments.
C34_FragmentsOnceInOrder ==
  (spc \in {"read", "sawDone", "returned"}) =>
    /\ extractorIn = FragmentsBeforeDone(LinesReceived)
    /\ fullContent = ConcatAll(extractorIn)
    /\ stripperIn = ExtractedFrom(NewExtractor, extractorIn)
    /\ cleaned = StrippedFrom(NewStripper, stripperIn)
    /\ spc = "returned" => returned = <<ConcatAll(extractorIn)>>

\* two content lines, the sentinel and one more content line: the call has
\* returned the first two fragments, the line after the sentinel was read
\* into the buffer and left there, and the token text is the x before the
\* marker, whose start token the fragments split
C34_Witness ==
  /\ spc = "returned"
  /\ Len(jsonDoc[1]) = 4
  /\ jsonDoc[1][3].data = "[DONE]"
  /\ jsonDoc[1][4].delta = <<Fragment(3)>>
  /\ extractorIn = <<Fragment(1), Fragment(2)>>
  /\ returned = <<Fragment(1) \o Fragment(2)>>
  /\ netBuffer # <<>>
  /\ stripper.inCite
  /\ cleaned = <<"x">>

(***************************************************************************)
(* The page: handleSend                                                    *)
(***************************************************************************)
\* The lines of a streamed response as the page reads them: json is whether
\* JSON.parse accepts the line, type the event's type, data its data.  A
\* token's data is a string, possibly empty; a done event's data has an
\* answer, possibly empty, and citations; an error's data is a message.
ClientLines ==
  { [json |-> TRUE, type |-> "token", data |-> <<"H">>],
    [json |-> TRUE, type |-> "token", data |-> <<"i">>],
    [json |-> TRUE, type |-> "token", data |-> <<>>],
    [json |-> TRUE, type |-> "done",
     data |-> [answer |-> <<"O", "K">>, citations |-> <<"c1">>]],
    [json |-> TRUE, type |-> "done", data |-> [answer |-> <<>>, citations |-> <<>>]],
    [json |-> TRUE, type |-> "error", data |-> <<"b", "o", "o", "m">>],
    [json |-> FALSE, type |-> "", data |-> <<>>] }

ClientStreams == UNION { [1..n -> ClientLines] : n \in 0..MaxLines }

\* the conversation before the question is sent
Conversations ==
  { <<>>,
    << [role |-> "user", content |-> <<"q">>, citations |-> <<>>],
       [role |-> "assistant", content |-> <<"a">>, citations |-> <<>>] >> }

\* updated[assistantIndex] = {...target, content: target.content + token}
AppendToken(msgs, index, token) ==
  IF index + 1 \in DOMAIN msgs /\ msgs[index + 1].role = "assistant"
  THEN [msgs EXCEPT ![index + 1].content = @ \o token]
  ELSE msgs

\* updated[assistantIndex] = {...target, content: answer || target.content,
\* citations}
ApplyDone(msgs, index, data) ==
  IF index + 1 \in DOMAIN msgs /\ msgs[index + 1].role = "assistant"
  THEN [msgs EXCEPT ![index + 1].content = IF data.answer # <<>> THEN data.answer ELSE @,
                    ![index + 1].citations = data.citations]
  ELSE msgs

RECURSIVE ClientDrain(_, _, _)
\* The inner loop of the page's reader: every complete line of the buffer
\* is taken out and handled, until no line break is left.
ClientDrain(buffer, index, st) ==
  IF LineBreakIndex(buffer) = -1 THEN [buffer |-> buffer, st |-> st]
  ELSE LET event == buffer[LineBreakIndex(buffer) + 1].line
           rest == SubSeq(buffer, LineBreakIndex(buffer) + 2, Len(buffer))
       IN IF ~event.json THEN ClientDrain(rest, index, st)
          ELSE IF event.type = "token" THEN
            ClientDrain(rest, index,
              IF event.data # <<>>
              THEN [st EXCEPT !.messages = AppendToken(@, index, event.data)]
              ELSE st)
          ELSE IF event.type = "done" THEN
            ClientDrain(rest, index,
              [st EXCEPT !.messages = ApplyDone(@, index, event.data),
                         !.streamDone = TRUE,
                         !.atDone = IF @ = <<>> THEN <<event.data>> ELSE @])
          ELSE IF event.type = "error" THEN
            ClientDrain(rest, index,
              [st EXCEPT !.error = <<event.data>>, !.streamDone = TRUE])
          ELSE ClientDrain(rest, index, st)

\* handleSend up to the request: the question joins the conversation.
Send ==
  /\ cpc = "idle"
  /\ ~isLoading
  /\ messages' = Append(messages, [role |-> "user", content |-> <<"q">>,
                                   citations |-> <<>>])
  /\ isLoading' = TRUE
  /\ clientError' = <<>>
  /\ cpc' = "fetching"
  /\ UNCHANGED <<assistantIndex, inbound, clientBuffer, streamDone, atDone,
                 chunkVars, fuseVars, citeVars, chatVars, scanVars, batchVars,
                 elemVars, sseVars, promptVars, lookupVars>>

\* The response is a stream: an empty assistant message is added and the
\* body is read.
StreamOpens ==
  /\ cpc = "fetching"
  /\ \E stream \in ClientStreams : inbound' = OnTheWire(stream)
  /\ assistantIndex' = Len(messages)
  /\ messages' = Append(messages, [role |-> "assistant", content |-> <<>>,
                                   citations |-> <<>>])
  /\ clientBuffer' = <<>>
  /\ streamDone' = FALSE
  /\ cpc' = "reading"
  /\ UNCHANGED <<isLoading, clientError, atDone,
                 chunkVars, fuseVars, citeVars, chatVars, scanVars, batchVars,
                 elemVars, sseVars, promptVars, lookupVars>>

\* The response is a JSON body: its answer becomes the assistant message, or
\* its error is shown.
JsonArrives ==
  /\ cpc = "fetching"
  /\ \E ok \in BOOLEAN :
       IF ok
       THEN /\ messages' = Append(messages, [role |-> "assistant",
                                             content |-> <<"O", "K">>,
                                             citations |-> <<"c1">>])
            /\ UNCHANGED clientError
       ELSE /\ clientError' = << <<"b", "o", "o", "m">> >>
            /\ UNCHANGED messages
  /\ isLoading' = FALSE
  /\ cpc' = "finished"
  /\ UNCHANGED <<assistantIndex, inbound, clientBuffer, streamDone, atDone,
                 chunkVars, fuseVars, citeVars, chatVars, scanVars, batchVars,
                 elemVars, sseVars, promptVars, lookupVars>>

\* reader.read() delivers the next parts of the body and the inner loop
\* handles the lines they complete.
ClientRead ==
  /\ cpc = "reading"
  /\ ~streamDone
  /\ inbound # <<>>
  /\ \E n \in 1..MaxReadParts :
       /\ n <= Len(inbound)
       /\ LET result == ClientDrain(clientBuffer \o SubSeq(inbound, 1, n),
                          assistantIndex,
                          [messages |-> messages, error |-> clientError,
                           streamDone |-> FALSE, atDone |-> atDone])
          IN /\ clientBuffer' = result.buffer
             /\ messages' = result.st.messages
             /\ clientError' = result.st.error
             /\ streamDone' = result.st.streamDone
             /\ atDone' = result.st.atDone
       /\ inbound' = SubSeq(inbound, n + 1, Len(inbound))
  /\ UNCHANGED <<isLoading, assistantIndex, cpc,
                 chunkVars, fuseVars, citeVars, chatVars, scanVars, batchVars,
                 elemVars, sseVars, promptVars, lookupVars>>

\* The loop has ended, after a done or error event or because the reader is
\* done, and handleSend returns.
ClientReturns ==
  /\ cpc = "reading"
  /\ streamDone \/ inbound = <<>>
  /\ isLoading' = FALSE
  /\ cpc' = "finished"
  /\ UNCHANGED <<messages, clientError, assistantIndex, inbound, clientBuffer,
                 streamDone, atDone,
                 chunkVars, fuseVars, citeVars, chatVars, scanVars, batchVars,
                 elemVars, sseVars, promptVars, lookupVars>>

InitClient ==
  /\ IdleLookup
  /\ IdlePrompt
  /\ IdleSse
  /\ IdleElem
  /\ IdleScan
  /\ IdleBatch
  /\ IdleChunk
  /\ IdleFuse
  /\ IdleCite
  /\ IdleChat
  /\ messages \in Conversations
  /\ isLoading = FALSE
  /\ clientError = <<>>
  /\ assistantIndex = 0
  /\ inbound = <<>>
  /\ clientBuffer = <<>>
  /\ streamDone = FALSE
  /\ atDone = <<>>
  /\ cpc = "idle"

NextClient == Send \/ StreamOpens \/ JsonArrives \/ ClientRead \/ ClientReturns

SpecClient == InitClient /\ [][NextClient]_vars

FALLBACK_SYSTEM_PROMPT == <<"f", "a", "l", "l", "b", "a", "c", "k">>

\* What fs.readFile can resolve with: the file's text, the text after the
\* file was edited, a file of white space only; <<>> stands for a rejected
\* read.
ReadOutcomes ==
  { << <<" ", "p", "r", "o", "m", "p", "t", "\n">> >>,
    << <<"e", "d", "i", "t", "e", "d", "\n">> >>,
    << <<" ", "\n">> >>,
    <<>> }

\* the text a call stores and returns once its read has settled
PromptFrom(outcome) ==
  IF outcome # <<>> /\ Len(Trim(outcome[1])) > 0 THEN Trim(outcome[1])
  ELSE FALLBACK_SYSTEM_PROMPT

\* loadSystemPrompt is called: a cached prompt is returned at once,
\* otherwise the file is read.
CallLoad(p) ==
  /\ loaders[p].pc = "idle"
  /\ IF cachedSystemPrompt # <<>>
     THEN /\ loaders' = [loaders EXCEPT ![p] = [pc |-> "returned",
                                                 result |-> cachedSystemPrompt]]
          /\ promptsReturned' = promptsReturned \cup {cachedSystemPrompt[1]}
     ELSE /\ loaders' = [loaders EXCEPT ![p].pc = "reading"]
          /\ UNCHANGED promptsReturned
  /\ UNCHANGED <<cachedSystemPrompt, cacheWrites,
                 chunkVars, fuseVars, citeVars, chatVars, scanVars, batchVars,
                 elemVars, sseVars, clientVars, lookupVars>>

\* The read of a call settles: the trimmed text, or the fallback, is stored
\* in the cache and returned.
ReadSettles(p) ==
  /\ loaders[p].pc = "reading"
  /\ \E outcome \in ReadOutcomes :
       /\ cachedSystemPrompt' = <<PromptFrom(outcome)>>
       /\ cacheWrites' = Append(cacheWrites, PromptFrom(outcome))
       /\ loaders' = [loaders EXCEPT ![p] = [pc |-> "returned",
                                              result |-> <<PromptFrom(outcome)>>]]
       /\ promptsReturned' = promptsReturned \cup {PromptFrom(outcome)}
  /\ UNCHANGED <<chunkVars, fuseVars, citeVars, chatVars, scanVars, batchVars,
                 elemVars, sseVars, clientVars, lookupVars>>

\* The request that made the call is over; the next request calls again.
NextRequest(p) ==
  /\ loaders[p].pc = "returned"
  /\ loaders' = [loaders EXCEPT ![p] = [pc |-> "idle", result |-> <<>>]]
  /\ UNCHANGED <<cachedSystemPrompt, cacheWrites, promptsReturned,
                 chunkVars, fuseVars, citeVars, chatVars, scanVars, batchVars,
                 elemVars, sseVars, clientVars, lookupVars>>

InitPrompt ==
  /\ IdleLookup
  /\ IdleClient
  /\ IdleSse
  /\ IdleElem
  /\ IdleScan
  /\ IdleBatch
  /\ IdleChunk
  /\ IdleFuse
  /\ IdleCite
  /\ IdleChat
  /\ cachedSystemPrompt = <<>>
  /\ loaders = [p \in 1..MaxLoaders |-> [pc |-> "idle", result |-> <<>>]]
  /\ cacheWrites = <<>>
  /\ promptsReturned = {}

NextPrompt ==
  \E p \in 1..MaxLoaders : CallLoad(p) \/ ReadSettles(p) \/ NextRequest(p)

SpecPrompt == InitPrompt /\ [][NextPrompt]_vars

(***************************************************************************)
(* Claims about the prompt cache                                           *)
(***************************************************************************)
\* C36: however concurrent calls interleave, a value the cache holds is
\* never replaced by another one, and all calls return the same text.
C36_CachePopulatedOnce ==
  loaders # <<>> =>
    /\ \A i, j \in DOMAIN cacheWrites : cacheWrites[i] = cacheWrites[j]
    /\ Cardinality(promptsReturned) <= 1

(***************************************************************************)
(* The chunk endpoint: GET and loadChunkIndex                              *)
(***************************************************************************)
\* The id parameter: none, empty, the id of a chunk that the file has, the
\* id of one it has not.
LookupIds == { <<>>, <<"">>, <<"c1">>, <<"c9">> }

\* data/chunks.jsonl: unreadable, or its lines; a line is a record (with or
\* without chunk_id and doc_id) or is not JSON.
ChunkFiles ==
  { [readable |-> FALSE, lines |-> <<>>],
    [readable |-> TRUE, lines |-> <<>>],
    [readable |-> TRUE,
     lines |-> << [json |-> TRUE, chunk_id |-> <<"c1">>, doc_id |-> <<"rule6">>,
                   text |-> <<"local text">>],
                  [json |-> FALSE, chunk_id |-> <<>>, doc_id |-> <<>>, text |-> <<>>],
                  [json |-> TRUE, chunk_id |-> <<>>, doc_id |-> <<"rule7">>,
                   text |-> <<>>] >>] }

\* What the fetch of the vector store comes to: it throws (a missing
\* setting, an error status, an empty or malformed body), or the body has
\* no vector, a vector without metadata, or a vector with metadata.
FetchOutcomes ==
  { [ok |-> FALSE, vector |-> <<>>],
    [ok |-> TRUE, vector |-> <<>>],
    [ok |-> TRUE, vector |-> <<[metadata |-> <<>>]>>],
    [ok |-> TRUE, vector |-> <<[metadata |-> <<[doc_id |-> <<"rule6">>,
                                                 text |-> <<"stored text">>]>>]>>],
    [ok |-> TRUE, vector |-> <<[metadata |-> <<[doc_id |-> <<>>, text |-> <<>>]>>]>>] }

\* x ?? fallback for a value that may be missing
OrElse(value, fallback) == IF value = <<>> THEN fallback ELSE value[1]

RECURSIVE IndexFrom(_, _)
\* the forEach of loadChunkIndex: every line that parses and has a chunk_id
\* is set in the map
IndexFrom(lines, map) ==
  IF lines = <<>> THEN map
  ELSE IndexFrom(Tail(lines),
         IF Head(lines).json /\ Head(lines).chunk_id # <<>>
         THEN MapSet(map, Head(lines).chunk_id[1],
                     [chunk_id |-> Head(lines).chunk_id[1],
                      doc_id |-> OrElse(Head(lines).doc_id, "null"),
                      text |-> OrElse(Head(lines).text, "")])
         ELSE map)

\* Mutant: the index never has the id.
LocalRecord_Miss(index, id) == <<>>

\* index.get(id) || null
LocalRecord(index, id) == IF MapHas(index, id) THEN <<MapGet(index, id)>> ELSE <<>>

\* A request arrives; without an id it is answered with the 400.
GetChunk ==
  /\ lpc = "idle"
  /\ lookupsDone < MaxLookups
  /\ \E id \in LookupIds, file \in ChunkFiles :
       /\ lookupId' = id
       /\ chunksFile' = file
       /\ IF id = <<>> \/ id = <<"">>
          THEN /\ lookupResponse' = JsonResponse(400, [error |-> "Missing chunk id"])
               /\ lpc' = "done"
          ELSE /\ lookupResponse' = <<>>
               /\ lpc' = "fetch"
  /\ metadata' = <<>>
  /\ vectorFetches' = 0
  /\ indexLookups' = 0
  /\ fileReads' = 0
  /\ UNCHANGED <<localIndex, loadFailures, lookupsDone,
                 chunkVars, fuseVars, citeVars, chatVars, scanVars, batchVars,
                 elemVars, sseVars, clientVars, promptVars>>

\* The vector store is asked for the id; with metadata the request is
\* answered from it.
FetchVector ==
  /\ lpc = "fetch"
  /\ vectorFetches' = vectorFetches + 1
  /\ \E outcome \in FetchOutcomes :
       LET found == IF outcome.ok /\ outcome.vector # <<>>
                    THEN outcome.vector[1].metadata ELSE <<>>
       IN /\ metadata' = found
          /\ IF found # <<>>
             THEN /\ lookupResponse' =
                       JsonResponse(200, [chunk_id |-> lookupId[1],
                                          doc_id |-> OrElse(found[1].doc_id, "null"),
                                          text |-> OrElse(found[1].text, "")])
                  /\ lpc' = "done"
             ELSE /\ UNCHANGED lookupResponse
                  /\ lpc' = "local"
  /\ UNCHANGED <<localIndex, chunksFile, lookupId, indexLookups, fileReads,
                 loadFailures, lookupsDone,
                 chunkVars, fuseVars, citeVars, chatVars, scanVars, batchVars,
                 elemVars, sseVars, clientVars, promptVars>>

\* getChunkFromLocal: the index is loaded unless it is there already, and
\* the request is answered with its record or with the 404.
LocalLookup ==
  /\ lpc = "local"
  /\ indexLookups' = indexLookups + 1
  /\ fileReads' = IF localIndex = <<>> THEN fileReads + 1 ELSE fileReads
  /\ localIndex' = IF localIndex # <<>> THEN localIndex
                   ELSE IF chunksFile.readable
                        THEN <<IndexFrom(chunksFile.lines, <<>>)>>
                        ELSE <<>>
  /\ loadFailures' = IF localIndex = <<>> /\ ~chunksFile.readable
                     THEN loadFailures + 1 ELSE loadFailures
  /\ LET local == IF localIndex' = <<>> THEN <<>>
                  ELSE LocalRecord(localIndex'[1], lookupId[1])
     IN lookupResponse' = IF local # <<>> THEN JsonResponse(200, local[1])
                          ELSE JsonResponse(404, [error |-> "Chunk not found"])
  /\ lpc' = "done"
  /\ UNCHANGED <<chunksFile, lookupId, metadata, vectorFetches, lookupsDone,
                 chunkVars, fuseVars, citeVars, chatVars, scanVars, batchVars,
                 elemVars, sseVars, clientVars, promptVars>>

\* The response has been sent; the endpoint awaits the next request.
LookupAnswered ==
  /\ lpc = "done"
  /\ lookupsDone' = lookupsDone + 1
  /\ lpc' = "idle"
  /\ UNCHANGED <<localIndex, chunksFile, lookupId, metadata, vectorFetches,
                 indexLookups, fileReads, loadFailures, lookupResponse,
                 chunkVars, fuseVars, citeVars, chatVars, scanVars, batchVars,
                 elemVars, sseVars, clientVars, promptVars>>

InitLookup ==
  /\ IdlePrompt
  /\ IdleClient
  /\ IdleSse
  /\ IdleElem
  /\ IdleScan
  /\ IdleBatch
  /\ IdleChunk
  /\ IdleFuse
  /\ IdleCite
  /\ IdleChat
  /\ localIndex = <<>>
  /\ chunksFile \in ChunkFiles
  /\ lookupId = <<>>
  /\ metadata = <<>>
  /\ vectorFetches = 0
  /\ indexLookups = 0
  /\ fileReads = 0
  /\ loadFailures = 0
  /\ lookupResponse = <<>>
  /\ lookupsDone = 0
  /\ lpc = "idle"

NextLookup == GetChunk \/ FetchVector \/ LocalLookup \/ LookupAnswered

SpecLookup == InitLookup /\ [][NextLookup]_vars

(***************************************************************************)
(* Claims about the chunk endpoint                                         *)
(***************************************************************************)
\* the file as it is has a record for the id
FileHas(file, id) ==
  file.readable /\ \E i \in DOMAIN file.lines :
                     file.lines[i].json /\ file.lines[i].chunk_id = <<id>>

\* C38: the local index is consulted only after the one fetch of the vector
\* store has failed or brought no metadata; the 404 is given only when that
\* fetch brought nothing and the local index has no record for the id or
\* could not be loaded, and an index that could not be loaded is left unset,
\* so that every later request that needs it reads the file again; a request
\* without an id gets the 400 and no fetch and no read is made for it.
C38_LocalIndexIsFallback ==
  lpc \in {"fetch", "local", "done"} =>
    /\ indexLookups > 0 => (vectorFetches = 1 /\ metadata = <<>>)
    /\ (lpc = "done" /\ metadata # <<>>) =>
         (indexLookups = 0 /\ fileReads = 0 /\ lookupResponse[1].status = 200)
    /\ (lpc = "done" /\ lookupResponse[1].status = 404) =>
         /\ metadata = <<>> /\ vectorFetches = 1 /\ indexLookups = 1
         /\ \/ localIndex = <<>> /\ fileReads = 1 /\ ~chunksFile.readable
            \/ localIndex # <<>> /\ ~MapHas(localIndex[1], lookupId[1])
    /\ (lpc = "done" /\ indexLookups = 1 /\ fileReads = 1 /\ FileHas(chunksFile, lookupId[1])) =>
         lookupResponse[1].status = 200
    /\ (localIndex = <<>> /\ lpc = "done" /\ indexLookups = 1) => fileReads = 1
    /\ (lookupId = <<>> \/ lookupId = <<"">>) =>
         /\ lpc = "done"
         /\ lookupResponse = JsonResponse(400, [error |-> "Missing chunk id"])
         /\ vectorFetches = 0 /\ indexLookups = 0 /\ fileReads = 0

\* the first request found the file unreadable and got the 404; the second,
\* for which the vector store failed again, read the file anew and was
\* answered from it
C38_Witness ==
  /\ lpc = "done"
  /\ lookupsDone = 1
  /\ loadFailures = 1
  /\ metadata = <<>>
  /\ fileReads = 1
  /\ lookupId = <<"c1">>
  /\ lookupResponse = JsonResponse(200, [chunk_id |-> "c1", doc_id |-> "rule6",
                                         text |-> "local text"])

====
